---- MODULE Spec2Model ----
(***************************************************************************)
(* A model of the sqlc-gen-typescript code generator: the uniqueness       *)
(* validator, the drivers' type mappers and declaration builders, and the  *)
(* codegen run that assembles one output file per source file.             *)
(*                                                                         *)
(* JavaScript strings are TLA+ strings; a character is a string of length  *)
(* one, read with SubSeq.  A JavaScript array is a sequence, a Map or Set  *)
(* that is only looked up is a function or a set, and a Map or Set that is *)
(* iterated is a sequence in insertion order.                              *)
(***************************************************************************)
EXTENDS Integers, Sequences, FiniteSets, TLC

VARIABLES
    options,    \* assertUniqueNames: the argument of the call
    thrown,     \* assertUniqueNames: the outcome of the call
    enumMap,    \* drivers/postgres.ts: the module's enum lookup (let enumMap)
    mapper,     \* the driver whose columnType is called
    column,     \* columnType: the argument of the call
    typ,        \* columnType: the outcome of the call
    driver,     \* the driver whose declaration builders are called
    query,      \* the query a callable is built for
    resultSet,  \* the rows the query returns when the emitted function runs
    emitted,    \* the outcome of the switch over query.cmd
    returned,   \* the outcome of the call of the emitted function
    input,      \* app.ts: the request read from stdin
    querymap,   \* codegen: the queries of each filename, in insertion order
    files,      \* codegen: the files pushed so far
    nodes,      \* codegen: the nodes of the file being built
    fileEnums,  \* codegen: the enum names of the file, in insertion order
    usedEnums,  \* codegen: the enum names of all files
    fi,         \* codegen: position in querymap.entries()
    qi,         \* codegen: position in the queries of the file
    pc,         \* app.ts: the step the run is at
    failure,    \* app.ts: the error that ended the run
    result,     \* app.ts: const result = codegen(input)
    stdout,     \* what writeOutput wrote
    previous    \* the request of the call of codegen before this one, if any

vValidate == <<options, thrown>>
vTypes == <<mapper, column, typ>>
vDriver == <<driver, query, resultSet, emitted, returned>>
vCodegen == <<input, querymap, files, nodes, fileEnums, usedEnums, fi, qi, pc,
              failure, result, stdout, previous>>
vars == <<options, thrown, enumMap, mapper, column, typ, driver, query, resultSet,
          emitted, returned, input, querymap, files, nodes, fileEnums, usedEnums,
          fi, qi, pc, failure, result, stdout, previous>>

(***************************************************************************)
(* Bounds of the model.                                                    *)
(***************************************************************************)
MaxNames == 4

MaxDims == 2

(***************************************************************************)
(* Strings.                                                                *)
(***************************************************************************)
\* The characters the model uses, in increasing UTF-16 code unit order.
Ascii == " $'().0123456789:ABCDEFGHIJKLMNOPQRSTUVWXYZ_abcdefghijklmnopqrstuvwxyz"

UpperCase == "ABCDEFGHIJKLMNOPQRSTUVWXYZ"

LowerCase == "abcdefghijklmnopqrstuvwxyz"

CharAt(s, i) == SubSeq(s, i, i)

CodeUnit(c) == CHOOSE i \in 1..Len(Ascii) : CharAt(Ascii, i) = c

\* a < b as JavaScript compares two strings: by code units, a proper prefix first.
RECURSIVE StrLess(_, _)
StrLess(a, b) ==
    IF Len(b) = 0 THEN FALSE
    ELSE IF Len(a) = 0 THEN TRUE
    ELSE IF CharAt(a, 1) = CharAt(b, 1)
         THEN StrLess(SubSeq(a, 2, Len(a)), SubSeq(b, 2, Len(b)))
         ELSE CodeUnit(CharAt(a, 1)) < CodeUnit(CharAt(b, 1))

\* String.prototype.includes
Includes(s, sub) ==
    \E i \in 1..(Len(s) - Len(sub) + 1) : SubSeq(s, i, i + Len(sub) - 1) = sub

\* String.prototype.startsWith
StartsWith(s, prefix) ==
    Len(s) >= Len(prefix) /\ SubSeq(s, 1, Len(prefix)) = prefix

\* Array.prototype.sort() without a comparator, on strings: an insertion sort
\* by StrLess (the order is total, so every sort gives the same result).
RECURSIVE SortInsert(_, _)
SortInsert(sorted, s) ==
    IF sorted = <<>> THEN <<s>>
    ELSE IF StrLess(s, Head(sorted)) THEN <<s>> \o sorted
    ELSE <<Head(sorted)>> \o SortInsert(Tail(sorted), s)

RECURSIVE Sort(_)
Sort(arr) ==
    IF arr = <<>> THEN <<>>
    ELSE SortInsert(Sort(SubSeq(arr, 1, Len(arr) - 1)), arr[Len(arr)])

\* The sequences over S of length at most n.
SeqUpTo(S, n) == UNION {[1..k -> S] : k \in 0..n}

(***************************************************************************)
(* validate.ts: assertUniqueNames                                          *)
(***************************************************************************)
NAMED_PARAMS_DOCS_URL == "https://docs.sqlc.dev/en/latest/howto/named_parameters.html"

\* counts.set(name, (counts.get(name) ?? 0) + 1) on a Map kept as the sequence
\* of its entries <<name, count>> in insertion order.
CountName(counts, name) ==
    IF \E i \in 1..Len(counts) : counts[i][1] = name
    THEN [i \in 1..Len(counts) |->
            IF counts[i][1] = name THEN <<name, counts[i][2] + 1>> ELSE counts[i]]
    ELSE Append(counts, <<name, 1>>)

RECURSIVE CountNames(_)
CountNames(names) ==
    IF names = <<>> THEN <<>>
    ELSE CountName(CountNames(SubSeq(names, 1, Len(names) - 1)), names[Len(names)])

EntryNames(entries) == [i \in 1..Len(entries) |-> entries[i][1]]

\* [...counts.entries()].filter(([, count]) => count > 1).map(([name]) => name).sort()
Duplicates(names) ==
    Sort(EntryNames(SelectSeq(CountNames(names), LAMBDA e : e[2] > 1)))

\* The variant without the final sort(): the names stay in insertion order.
DuplicatesUnsorted(names) ==
    EntryNames(SelectSeq(CountNames(names), LAMBDA e : e[2] > 1))

\* The lines of the Error message, before join("\n").
AmbiguousMessage(opts, duplicates) ==
    << "sqlc-gen-typescript: ambiguous " \o opts.kind \o " names for query '"
          \o opts.queryName \o "' (" \o opts.fileName \o ")",
       "",
       "The TypeScript generator produced duplicate identifier(s):" >>
    \o [i \in 1..Len(duplicates) |-> "- " \o duplicates[i]]
    \o << "",
          "Disambiguate using named parameters (sqlc.arg/sqlc.narg) or explicit column aliases.",
          "Docs: " \o NAMED_PARAMS_DOCS_URL >>

NoThrow == [raised |-> FALSE]

Throw(message) == [raised |-> TRUE, message |-> message]

assertUniqueNamesUnsorted(opts) ==
    LET duplicates == DuplicatesUnsorted(opts.names)
    IN  IF Len(duplicates) = 0 THEN NoThrow
        ELSE Throw(AmbiguousMessage(opts, duplicates))

\* A variant of assertUniqueNames that accepts every list of names.
assertUniqueNamesNever(opts) == NoThrow

assertUniqueNames(opts) ==
    LET duplicates == Duplicates(opts.names)
    IN  IF Len(duplicates) = 0 THEN NoThrow
        ELSE Throw(AmbiguousMessage(opts, duplicates))

(***************************************************************************)
(* More string operations.                                                 *)
(***************************************************************************)
ToLowerChar(c) ==
    IF \E i \in 1..Len(UpperCase) : CharAt(UpperCase, i) = c
    THEN CharAt(LowerCase, CHOOSE i \in 1..Len(UpperCase) : CharAt(UpperCase, i) = c)
    ELSE c

ToUpperChar(c) ==
    IF \E i \in 1..Len(LowerCase) : CharAt(LowerCase, i) = c
    THEN CharAt(UpperCase, CHOOSE i \in 1..Len(LowerCase) : CharAt(LowerCase, i) = c)
    ELSE c

\* String.prototype.toLowerCase
RECURSIVE ToLowerCase(_)
ToLowerCase(s) ==
    IF Len(s) = 0 THEN ""
    ELSE ToLowerChar(CharAt(s, 1)) \o ToLowerCase(SubSeq(s, 2, Len(s)))

\* String.prototype.toUpperCase
RECURSIVE ToUpperCase(_)
ToUpperCase(s) ==
    IF Len(s) = 0 THEN ""
    ELSE ToUpperChar(CharAt(s, 1)) \o ToUpperCase(SubSeq(s, 2, Len(s)))

\* s.slice(n)
Slice(s, n) == SubSeq(s, n + 1, Len(s))

\* s.split(sep) for a separator of one character: the pieces, in order.
RECURSIVE SplitFrom(_, _, _)
SplitFrom(s, sep, piece) ==
    IF Len(s) = 0 THEN <<piece>>
    ELSE IF CharAt(s, 1) = sep
         THEN <<piece>> \o SplitFrom(Slice(s, 1), sep, "")
         ELSE SplitFrom(Slice(s, 1), sep, piece \o CharAt(s, 1))

Split(s, sep) == SplitFrom(s, sep, "")

\* parts.join("")
RECURSIVE Join(_)
Join(parts) ==
    IF parts = <<>> THEN "" ELSE Head(parts) \o Join(Tail(parts))

\* str.split("_").map(part => part.charAt(0).toUpperCase() + part.slice(1).toLowerCase()).join("")
pascalCase(str) ==
    LET parts == Split(str, "_")
    IN  Join([i \in 1..Len(parts) |->
                IF parts[i] = "" THEN ""
                ELSE ToUpperCase(SubSeq(parts[i], 1, 1)) \o ToLowerCase(Slice(parts[i], 1))])

(***************************************************************************)
(* The request's values (gen/plugin/codegen_pb): a message field that is   *)
(* not set reads as undefined.                                             *)
(***************************************************************************)
Undefined == [undefined |-> TRUE]

Identifier(name) == [name |-> name]

Column(name, type, notNull, isArray, arrayDims) ==
    [name |-> name, type |-> type, notNull |-> notNull,
     isArray |-> isArray, arrayDims |-> arrayDims]

(***************************************************************************)
(* TypeScript type nodes (typescript's factory).                           *)
(***************************************************************************)
KeywordType(keyword) == [node |-> "keyword", name |-> keyword]

TypeReference(name) == [node |-> "reference", name |-> name]

ArrayType(elem) == [node |-> "array", elem |-> elem]

NullLiteral == [node |-> "null"]

UnionType(types) == [node |-> "union", types |-> types]

Return(value) == [raised |-> FALSE, value |-> value]

pgCatalog == "pg_catalog."

\* if (typeName.startsWith(pgCatalog)) typeName = typeName.slice(pgCatalog.length)
StripPgCatalog(typeName) ==
    IF StartsWith(typeName, pgCatalog) THEN Slice(typeName, Len(pgCatalog)) ELSE typeName

\* Math.max(column.arrayDims || 1)
ArrayDimsOf(col) == IF col.arrayDims = 0 THEN 1 ELSE col.arrayDims

\* A variant that wraps once, whatever the dimension count.
WrapArrayOnce(t, dims) == IF dims <= 0 THEN t ELSE ArrayType(t)

\* for (let i = 0; i < dims; i++) typ = factory.createArrayTypeNode(typ)
RECURSIVE WrapArray(_, _)
WrapArray(t, dims) ==
    IF dims <= 0 THEN t ELSE WrapArray(ArrayType(t), dims - 1)

\* A variant that leaves the null alternative out.
ArrayNeverNullable(t, col) ==
    IF col.isArray \/ col.arrayDims > 0 THEN WrapArray(t, ArrayDimsOf(col)) ELSE t

\* The tail of the Postgres mappers, the same statements in each of the three:
\* the array wrap, then the null union.
ArrayNullable(t, col) ==
    LET arr == IF col.isArray \/ col.arrayDims > 0
               THEN WrapArray(t, ArrayDimsOf(col)) ELSE t
    IN  IF col.notNull THEN arr ELSE UnionType(<<arr, NullLiteral>>)

(***************************************************************************)
(* drivers/postgres.ts (tagged templates): the strict type mapper.         *)
(***************************************************************************)
StrictBoolean == {"bool", "boolean"}

StrictDate ==
    {"date", "timestamp", "timestamp without time zone", "timestamptz",
     "timestamp with time zone"}

StrictNumber ==
    {"float4", "real", "float8", "float", "double precision", "int2", "smallint",
     "int4", "int", "integer", "int8", "bigint", "bigserial", "serial", "serial2",
     "serial4", "serial8", "smallserial", "oid"}

StrictJson == {"json", "jsonb"}

StrictString ==
    {"text", "varchar", "character varying", "char", "character", "bpchar", "name",
     "uuid", "citext", "inet", "cidr", "macaddr", "macaddr8", "money", "numeric",
     "decimal", "xml", "bit", "varbit", "bit varying", "interval", "time",
     "time without time zone", "timetz", "time with time zone", "tsvector",
     "tsquery"}

StrictGeometric == {"point", "line", "lseg", "box", "path", "polygon", "circle"}

GeometricMessage(originalTypeName) ==
    "Unrecognized PostgreSQL type: \"" \o originalTypeName \o "\". "
    \o "Please add support for this type in sqlc-gen-typescript/src/drivers/postgres.ts"

\* column.name || "unknown"
NameOrUnknown(col) == IF col.name = "" THEN "unknown" ELSE col.name

UnrecognizedMessage(originalTypeName, col) ==
    "Unrecognized PostgreSQL type: \"" \o originalTypeName \o "\" for column \""
    \o NameOrUnknown(col) \o "\". "
    \o "This usually means sqlc couldn't infer the type. "
    \o "Try adding an explicit cast like \"sqlc.arg(" \o col.name \o ")::text\" or \"sqlc.narg('"
    \o col.name \o "')\" in your query. "
    \o "If this is a valid PostgreSQL type that needs support, please add it to sqlc-gen-typescript/src/drivers/postgres.ts"

\* export function getEnumName(column?: Column): string | null, with the lookup
\* it reads; null is the empty sequence, a name is a sequence of one string.
getEnumName(map, col) ==
    IF col = Undefined \/ col.type = Undefined THEN <<>>
    ELSE LET typeName == ToLowerCase(col.type.name)
         IN  IF typeName \in DOMAIN map THEN <<typeName>> ELSE <<>>

\* The switch over lowerTypeName.
StrictBaseType(lowerTypeName, originalTypeName, col) ==
    IF lowerTypeName \in StrictBoolean THEN Return(KeywordType("boolean"))
    ELSE IF lowerTypeName = "bytea" THEN Return(TypeReference("Buffer"))
    ELSE IF lowerTypeName \in StrictDate THEN Return(TypeReference("Date"))
    ELSE IF lowerTypeName \in StrictNumber THEN Return(KeywordType("number"))
    ELSE IF lowerTypeName \in StrictJson THEN Return(KeywordType("any"))
    ELSE IF lowerTypeName = "void" THEN Return(KeywordType("void"))
    ELSE IF lowerTypeName \in StrictString THEN Return(KeywordType("string"))
    ELSE IF lowerTypeName \in StrictGeometric
         THEN Throw(GeometricMessage(originalTypeName))
    ELSE Throw(UnrecognizedMessage(originalTypeName, col))

\* export function columnType(column?: Column): TypeNode, with the lookup it reads.
columnType(map, col) ==
    IF col = Undefined \/ col.type = Undefined THEN Return(KeywordType("any"))
    ELSE LET originalTypeName == col.type.name
             lowerTypeName == ToLowerCase(StripPgCatalog(originalTypeName))
         IN  IF lowerTypeName \in DOMAIN map
             THEN LET t == TypeReference(pascalCase(lowerTypeName))
                  IN  IF col.isArray \/ col.arrayDims > 0
                      THEN LET arrayType == WrapArray(t, ArrayDimsOf(col))
                           IN  IF col.notNull THEN Return(arrayType)
                               ELSE Return(UnionType(<<arrayType, NullLiteral>>))
                      ELSE IF col.notNull THEN Return(t)
                      ELSE Return(UnionType(<<t, NullLiteral>>))
             ELSE LET base == StrictBaseType(lowerTypeName, originalTypeName, col)
                  IN  IF base.raised THEN base
                      ELSE Return(ArrayNullable(base.value, col))

(***************************************************************************)
(* drivers/postgres-common.ts and the class-based drivers/postgres.ts: the *)
(* permissive type mapper (the two switches are the same).                 *)
(***************************************************************************)
CommonString ==
    {"aclitem", "bit", "box", "bpchar", "cid", "cidr", "circle", "inet", "interval",
     "numeric", "decimal", "line", "lseg", "madaddr", "madaddr8", "money", "path",
     "pg_node_tree", "pg_snapshot", "point", "polygon", "regproc", "regrole", "tid",
     "text", "character varying", "character", "time", "timetz", "tsquery",
     "tsvector", "txid_snapshot", "uuid", "varbit", "varchar", "xid", "xml"}

CommonNumber ==
    {"bigserial", "float4", "real", "float8", "float", "double precision", "int2",
     "smallint", "int4", "int", "integer", "int8", "bigint", "oid", "serial",
     "serial2", "serial4", "serial8", "smallserial"}

CommonBoolean == {"bool", "boolean"}

CommonDate ==
    {"date", "timestamp", "timestamp without time zone", "timestamptz",
     "timestamp with time zone"}

CommonBaseType(typeName) ==
    IF typeName \in CommonNumber THEN KeywordType("number")
    ELSE IF typeName \in CommonBoolean THEN KeywordType("boolean")
    ELSE IF typeName = "bytea" THEN TypeReference("Buffer")
    ELSE IF typeName \in CommonDate THEN TypeReference("Date")
    ELSE IF typeName \in CommonString THEN KeywordType("string")
    ELSE KeywordType("any")

\* PostgresCommonDriver.columnType
CommonColumnType(col) ==
    IF col = Undefined \/ col.type = Undefined THEN Return(KeywordType("any"))
    ELSE LET typeName == ToLowerCase(StripPgCatalog(col.type.name))
         IN  Return(ArrayNullable(CommonBaseType(typeName), col))

\* Driver.columnType of the class-based postgres.js driver
UnsafeColumnType(col) ==
    IF col = Undefined \/ col.type = Undefined THEN Return(KeywordType("any"))
    ELSE LET typeName == ToLowerCase(StripPgCatalog(col.type.name))
         IN  Return(ArrayNullable(CommonBaseType(typeName), col))

(***************************************************************************)
(* drivers/bun-sqlite.ts: the SQLite type mapper.                          *)
(***************************************************************************)
SqliteNumber ==
    {"int", "integer", "tinyint", "smallint", "mediumint", "bigint", "unsignedbigint",
     "int2", "int8", "real", "double", "doubleprecision", "float", "boolean", "bool",
     "timestamp"}

SqliteString == {"varchar", "text", "date", "datetime"}

SqliteBaseType(typeName) ==
    IF typeName \in SqliteNumber THEN KeywordType("number")
    ELSE IF typeName \in SqliteString THEN KeywordType("string")
    ELSE IF typeName = "blob" THEN TypeReference("Buffer")
    ELSE KeywordType("any")

\* Driver.columnType of the bun:sqlite driver
SqliteColumnType(col) ==
    IF col = Undefined \/ col.type = Undefined THEN Return(KeywordType("any"))
    ELSE LET t == SqliteBaseType(ToLowerCase(col.type.name))
         IN  IF col.notNull THEN Return(t)
             ELSE Return(UnionType(<<t, NullLiteral>>))

(***************************************************************************)
(* The drivers of the repository, and the type mapper of each.             *)
(***************************************************************************)
TaggedDriver == "drivers/postgres.ts (tagged template)"

CommonDriver == "drivers/postgres-common.ts"

UnsafeDriver == "drivers/postgres.ts (sql.unsafe)"

SqliteDriver == "drivers/bun-sqlite.ts"

Drivers == {TaggedDriver, CommonDriver, UnsafeDriver, SqliteDriver}

PostgresDrivers == {TaggedDriver, CommonDriver, UnsafeDriver}

\* The variant in which the strict mapper raises for a column that is absent
\* or has no declared type.
DriverColumnTypeStrictRaises(d, map, col) ==
    IF d = TaggedDriver
    THEN IF col = Undefined \/ col.type = Undefined
         THEN Throw("Unrecognized PostgreSQL type")
         ELSE columnType(map, col)
    ELSE IF d = CommonDriver THEN CommonColumnType(col)
    ELSE IF d = UnsafeDriver THEN UnsafeColumnType(col)
    ELSE SqliteColumnType(col)

DriverColumnType(d, map, col) ==
    IF d = TaggedDriver THEN columnType(map, col)
    ELSE IF d = CommonDriver THEN CommonColumnType(col)
    ELSE IF d = UnsafeDriver THEN UnsafeColumnType(col)
    ELSE SqliteColumnType(col)

(***************************************************************************)
(* app.ts: buildEnumMap                                                    *)
(***************************************************************************)
Enum(name, vals) == [name |-> name, vals |-> vals]

Schema(name, enums) == [name |-> name, enums |-> enums]

Catalog(defaultSchema, schemas) == [defaultSchema |-> defaultSchema, schemas |-> schemas]

EmptyMap == [k \in {} |-> Undefined]

\* enumMap.set(key, value): a later set of the same key replaces its value.
MapSet(map, key, value) ==
    [k \in DOMAIN map \cup {key} |-> IF k = key THEN value ELSE map[k]]

\* A variant of the registration that sets the qualified name in every schema.
RegisterEnumQualifiedAlways(map, schema, enumDef, defaultSchema) ==
    MapSet(MapSet(map, enumDef.name, enumDef),
           schema.name \o "." \o enumDef.name, enumDef)

\* The body of the loop over schema.enums, for one enum.
RegisterEnum(map, schema, enumDef, defaultSchema) ==
    LET bare == MapSet(map, enumDef.name, enumDef)
    IN  IF schema.name # defaultSchema
        THEN MapSet(bare, schema.name \o "." \o enumDef.name, enumDef)
        ELSE bare

RECURSIVE RegisterEnums(_, _, _, _)
RegisterEnums(map, schema, enums, defaultSchema) ==
    IF enums = <<>> THEN map
    ELSE RegisterEnums(RegisterEnum(map, schema, Head(enums), defaultSchema),
                       schema, Tail(enums), defaultSchema)

RECURSIVE RegisterSchemas(_, _, _)
RegisterSchemas(map, schemas, defaultSchema) ==
    IF schemas = <<>> THEN map
    ELSE LET schema == Head(schemas)
         IN  IF schema.name = "pg_catalog" \/ schema.name = "information_schema"
             THEN RegisterSchemas(map, Tail(schemas), defaultSchema)
             ELSE RegisterSchemas(
                      RegisterEnums(map, schema, schema.enums, defaultSchema),
                      Tail(schemas), defaultSchema)

\* function buildEnumMap(input: GenerateRequest): Map<string, Enum>
buildEnumMap(request) ==
    LET defaultSchema ==
            IF request.catalog = Undefined THEN "public" ELSE request.catalog.defaultSchema
        schemas == IF request.catalog = Undefined THEN <<>> ELSE request.catalog.schemas
    IN  RegisterSchemas(EmptyMap, schemas, defaultSchema)

(***************************************************************************)
(* The catalogs of the model's requests.                                   *)
(***************************************************************************)
AuthorStatus == Enum("author_status", <<"active", "inactive", "pending">>)

CatalogAuthors ==
    Catalog("public",
            << Schema("pg_catalog", <<Enum("sys_kind", <<"x">>)>>),
               Schema("public", <<AuthorStatus>>) >>)

CatalogTwoSchemas ==
    Catalog("public",
            << Schema("public", <<Enum("status", <<"on", "off">>)>>),
               Schema("alt", <<Enum("status", <<"hi", "lo">>),
                               Enum("mood", <<"sad", "ok">>)>>) >>)

Catalogs == {Undefined, CatalogAuthors, CatalogTwoSchemas}

\* The lookups a run can install, and the empty one the module starts with.
EnumMaps == {buildEnumMap([catalog |-> c]) : c \in Catalogs}

(***************************************************************************)
(* drivers/utils.ts: argName and colName.                                  *)
(***************************************************************************)
IsLowerLetter(c) == \E i \in 1..Len(LowerCase) : CharAt(LowerCase, i) = c

\* snake_case to camelCase: an underscore before a lower-case letter goes, and
\* the letter is upper-cased.
RECURSIVE camelCase(_)
camelCase(s) ==
    IF Len(s) = 0 THEN ""
    ELSE IF Len(s) >= 2 /\ CharAt(s, 1) = "_" /\ IsLowerLetter(CharAt(s, 2))
         THEN ToUpperChar(CharAt(s, 2)) \o camelCase(Slice(s, 2))
         ELSE CharAt(s, 1) \o camelCase(Slice(s, 1))

fieldName(prefix, index, col) ==
    IF col # Undefined /\ col.name # "" THEN camelCase(col.name)
    ELSE prefix \o ToString(index)

\* argName(index, column), index counted from 0
argName(index, col) == fieldName("arg", index, col)

\* colName(index, column), index counted from 0
colName(index, col) == fieldName("column", index, col)

(***************************************************************************)
(* The request's queries.                                                  *)
(***************************************************************************)
Parameter(number, col) == [number |-> number, column |-> col]

Query(filename, name, cmd, text, params, columns) ==
    [filename |-> filename, name |-> name, cmd |-> cmd, text |-> text,
     params |-> params, columns |-> columns]

(***************************************************************************)
(* Declarations and statements the drivers build (typescript's factory).   *)
(***************************************************************************)
\* An optional interface name: none, or a sequence of one string.
NoIface == <<>>

\* args.<name>
ArgsAccess(name) == [object |-> "args", property |-> name]

\* funcParamsDecl(iface, params): the first parameter of the driver, then args.
funcParamsDecl(first, iface, params) ==
    IF iface # NoIface /\ Len(params) > 0
    THEN <<first, [name |-> "args", type |-> iface[1]]>>
    ELSE <<first>>

\* params.map((param, i) => args.<argName(i, param.column)>)
ArgsArray(params) ==
    [i \in 1..Len(params) |-> ArgsAccess(argName(i - 1, params[i].column))]

FunctionDeclaration(name, parameters, returnType, body) ==
    [node |-> "function", name |-> name, parameters |-> parameters,
     returnType |-> returnType, body |-> body]

PromiseOf(t) == [node |-> "reference", name |-> "Promise", typeArguments |-> <<t>>]

\* The statements of the emitted function bodies.
ConstRows(call) == [stmt |-> "const rows = <call>", call |-> call]

ConstStmt(queryName) == [stmt |-> "const stmt = database.prepare(<query>)", query |-> queryName]

ExpressionStatement(call) == [stmt |-> "<call>", call |-> call]

IfRowsLengthNot1ReturnNull == [stmt |-> "if (rows.length !== 1) { return null }"]

ConstRowIsRows0 == [stmt |-> "const row = rows[0]"]

IfNotRowReturnNull == [stmt |-> "if (!row) { return null }"]

ReturnRows0OrNull == [stmt |-> "return rows[0] ?? null"]

ReturnCall(call) == [stmt |-> "return <call>", call |-> call]

ReturnObject(fields) == [stmt |-> "return { <fields> }", fields |-> fields]

ReturnMapped(call, fields) ==
    [stmt |-> "return <call>.map(row => ({ <fields> }))", call |-> call, fields |-> fields]

(***************************************************************************)
(* drivers/postgres.ts (tagged templates): buildTaggedTemplate and the     *)
(* declaration builders.                                                   *)
(***************************************************************************)
IsDigit(c) == c \in {"0", "1", "2", "3", "4", "5", "6", "7", "8", "9"}

DigitValue(c) == CodeUnit(c) - CodeUnit("0")

\* parseInt(digits, 10) of a string of digits
RECURSIVE ParseInt(_)
ParseInt(digits) ==
    IF Len(digits) = 0 THEN 0
    ELSE 10 * ParseInt(SubSeq(digits, 1, Len(digits) - 1))
         + DigitValue(CharAt(digits, Len(digits)))

\* The number of digits of text from position pos on (the \d+ of the regex).
RECURSIVE DigitRun(_, _)
DigitRun(text, pos) ==
    IF pos <= Len(text) /\ IsDigit(CharAt(text, pos)) THEN 1 + DigitRun(text, pos + 1)
    ELSE 0

\* A variant whose fallback counts the position from 1, as the marker does.
MarkerExpressionOneBased(digits, params) ==
    LET paramIndex == ParseInt(digits) - 1
    IN  IF paramIndex >= 0 /\ paramIndex < Len(params)
        THEN ArgsAccess(argName(paramIndex, params[paramIndex + 1].column))
        ELSE ArgsAccess("arg" \o ToString(paramIndex + 1))

\* The expression pushed for one match of /\$(\d+)/g.
MarkerExpression(digits, params) ==
    LET paramIndex == ParseInt(digits) - 1
    IN  IF paramIndex >= 0 /\ paramIndex < Len(params)
        THEN ArgsAccess(argName(paramIndex, params[paramIndex + 1].column))
        ELSE ArgsAccess("arg" \o ToString(paramIndex))

\* A variant of the loop that takes lastIndex as the index of the match, not
\* the index after it.
RECURSIVE ScanMarkersKeepMarker(_, _, _, _, _, _)
ScanMarkersKeepMarker(text, params, pos, lastIndex, parts, expressions) ==
    IF pos > Len(text)
    THEN [parts |-> Append(parts, Slice(text, lastIndex)), expressions |-> expressions]
    ELSE IF CharAt(text, pos) = "$" /\ DigitRun(text, pos + 1) > 0
         THEN LET n == DigitRun(text, pos + 1)
              IN  ScanMarkersKeepMarker(text, params, pos + 1 + n, pos - 1,
                       Append(parts, SubSeq(text, lastIndex + 1, pos - 1)),
                       Append(expressions,
                              MarkerExpression(SubSeq(text, pos + 1, pos + n), params)))
         ELSE ScanMarkersKeepMarker(text, params, pos + 1, lastIndex, parts, expressions)

\* The loop over queryText.matchAll(paramRegex), from position pos (counted
\* from 1) with the text since lastIndex (counted from 0) not yet pushed.
RECURSIVE ScanMarkers(_, _, _, _, _, _)
ScanMarkers(text, params, pos, lastIndex, parts, expressions) ==
    IF pos > Len(text)
    THEN [parts |-> Append(parts, Slice(text, lastIndex)), expressions |-> expressions]
    ELSE IF CharAt(text, pos) = "$" /\ DigitRun(text, pos + 1) > 0
         THEN LET n == DigitRun(text, pos + 1)
              IN  ScanMarkers(text, params, pos + 1 + n, pos + n,
                       Append(parts, SubSeq(text, lastIndex + 1, pos - 1)),
                       Append(expressions,
                              MarkerExpression(SubSeq(text, pos + 1, pos + n), params)))
         ELSE ScanMarkers(text, params, pos + 1, lastIndex, parts, expressions)

\* function buildTaggedTemplate(queryText, params)
buildTaggedTemplate(queryText, params) ==
    LET scan == ScanMarkers(queryText, params, 1, 0, <<>>, <<>>)
        parts == scan.parts
        expressions == scan.expressions
    IN  IF Len(expressions) = 0
        THEN [tag |-> "sql", typeArguments |-> <<>>,
              template |-> [node |-> "noSubstitutionTemplate", text |-> queryText]]
        ELSE [tag |-> "sql", typeArguments |-> <<>>,
              template |-> [node |-> "template", head |-> parts[1],
                            spans |-> [i \in 1..Len(expressions) |->
                                         [expression |-> expressions[i],
                                          literal |-> parts[i + 1]]]]]

\* addTypeArgument(taggedTemplate, typeName, isArray)
addTypeArgument(taggedTemplate, typeName, isArray) ==
    LET ref == TypeReference(typeName)
    IN  [taggedTemplate EXCEPT
            !.typeArguments = <<IF isArray THEN ArrayType(ref) ELSE ref>>]

TaggedSql == [name |-> "sql", type |-> "Sql"]

\* export function execDecl(funcName, queryText, argIface, params)
TaggedExecDecl(funcName, queryText, argIface, params) ==
    FunctionDeclaration(funcName, funcParamsDecl(TaggedSql, argIface, params),
        PromiseOf(KeywordType("void")),
        << ExpressionStatement(buildTaggedTemplate(queryText, params)) >>)

\* export function manyDecl(funcName, queryText, argIface, returnIface, params, _columns)
TaggedManyDecl(funcName, queryText, argIface, returnIface, params, columns) ==
    FunctionDeclaration(funcName, funcParamsDecl(TaggedSql, argIface, params),
        PromiseOf(ArrayType(TypeReference(returnIface))),
        << ReturnCall(addTypeArgument(buildTaggedTemplate(queryText, params),
                                      returnIface, TRUE)) >>)

\* export function oneDecl(funcName, queryText, argIface, returnIface, params, _columns)
TaggedOneDecl(funcName, queryText, argIface, returnIface, params, columns) ==
    FunctionDeclaration(funcName, funcParamsDecl(TaggedSql, argIface, params),
        PromiseOf(UnionType(<<TypeReference(returnIface), NullLiteral>>)),
        << ConstRows(addTypeArgument(buildTaggedTemplate(queryText, params),
                                     returnIface, TRUE)),
           ReturnRows0OrNull >>)

\* export function execlastidDecl(...)
TaggedExeclastidDecl(funcName, queryText, argIface, params) ==
    Throw("postgres driver does not support :execlastid")

(***************************************************************************)
(* drivers/postgres-common.ts: PostgresCommonDriver (bun-sql, postgres).   *)
(***************************************************************************)
BIGINT_TYPES == {"int8", "bigint", "bigserial", "serial8"}

\* A variant that looks the type name up as it is written.
isBigIntTypeAsWritten(col) ==
    IF col = Undefined \/ col.type = Undefined \/ col.type.name = "" THEN FALSE
    ELSE col.type.name \in BIGINT_TYPES

\* function isBigIntType(column?: Column): boolean
isBigIntType(col) ==
    IF col = Undefined \/ col.type = Undefined \/ col.type.name = "" THEN FALSE
    ELSE ToLowerCase(StripPgCatalog(col.type.name)) \in BIGINT_TYPES

\* function createRowAccessExpression(col, index)
createRowAccessExpression(col, index) ==
    IF ~isBigIntType(col) THEN [expr |-> "row[i]", index |-> index]
    ELSE IF col.notNull THEN [expr |-> "Number(row[i])", index |-> index]
    ELSE [expr |-> "row[i] === null ? null : Number(row[i])", index |-> index]

\* sql.unsafe(<query>, [args...]), with .values() or without
UnsafeCall(queryName, params, values) ==
    [callee |-> "sql.unsafe", query |-> queryName, args |-> ArgsArray(params),
     values |-> values]

CommonSql == [name |-> "sql", type |-> "SQL"]

\* columns.map((col, i) => <colName(i, col)>: createRowAccessExpression(col, i))
CommonFields(columns) ==
    [i \in 1..Len(columns) |->
        [name |-> colName(i - 1, columns[i]),
         value |-> createRowAccessExpression(columns[i], i - 1)]]

\* PostgresCommonDriver.execDecl
CommonExecDecl(funcName, queryName, argIface, params) ==
    FunctionDeclaration(funcName, funcParamsDecl(CommonSql, argIface, params),
        PromiseOf(KeywordType("void")),
        << ExpressionStatement(UnsafeCall(queryName, params, FALSE)) >>)

\* PostgresCommonDriver.manyDecl
CommonManyDecl(funcName, queryName, argIface, returnIface, params, columns) ==
    FunctionDeclaration(funcName, funcParamsDecl(CommonSql, argIface, params),
        PromiseOf(ArrayType(TypeReference(returnIface))),
        << ReturnMapped(UnsafeCall(queryName, params, TRUE), CommonFields(columns)) >>)

\* A variant of oneDecl without the guard on the row count.
CommonOneDeclUnguarded(funcName, queryName, argIface, returnIface, params, columns) ==
    FunctionDeclaration(funcName, funcParamsDecl(CommonSql, argIface, params),
        PromiseOf(UnionType(<<TypeReference(returnIface), NullLiteral>>)),
        << ConstRows(UnsafeCall(queryName, params, TRUE)),
           ConstRowIsRows0,
           IfNotRowReturnNull,
           ReturnObject(CommonFields(columns)) >>)

\* PostgresCommonDriver.oneDecl
CommonOneDecl(funcName, queryName, argIface, returnIface, params, columns) ==
    FunctionDeclaration(funcName, funcParamsDecl(CommonSql, argIface, params),
        PromiseOf(UnionType(<<TypeReference(returnIface), NullLiteral>>)),
        << ConstRows(UnsafeCall(queryName, params, TRUE)),
           IfRowsLengthNot1ReturnNull,
           ConstRowIsRows0,
           IfNotRowReturnNull,
           ReturnObject(CommonFields(columns)) >>)

\* PostgresCommonDriver.execlastidDecl
CommonExeclastidDecl(funcName, queryName, argIface, params) ==
    Throw("PostgreSQL drivers do not support :execlastid")

(***************************************************************************)
(* drivers/postgres.ts: the class-based postgres.js driver (sql.unsafe,    *)
(* rows cast to the Row type).                                             *)
(***************************************************************************)
\* Driver.execDecl
UnsafeExecDecl(funcName, queryName, argIface, params) ==
    FunctionDeclaration(funcName, funcParamsDecl(CommonSql, argIface, params),
        PromiseOf(KeywordType("void")),
        << ExpressionStatement(UnsafeCall(queryName, params, FALSE)) >>)

\* Driver.manyDecl
UnsafeManyDecl(funcName, queryName, argIface, returnIface, params, columns) ==
    FunctionDeclaration(funcName, funcParamsDecl(CommonSql, argIface, params),
        PromiseOf(ArrayType(TypeReference(returnIface))),
        << ReturnCall(UnsafeCall(queryName, params, FALSE)) >>)

\* Driver.oneDecl
UnsafeOneDecl(funcName, queryName, argIface, returnIface, params, columns) ==
    FunctionDeclaration(funcName, funcParamsDecl(CommonSql, argIface, params),
        PromiseOf(UnionType(<<TypeReference(returnIface), NullLiteral>>)),
        << ConstRows(UnsafeCall(queryName, params, FALSE)),
           IfRowsLengthNot1ReturnNull,
           ReturnRows0OrNull >>)

\* Driver.execlastidDecl
UnsafeExeclastidDecl(funcName, queryName, argIface, params) ==
    Throw("postgres driver does not support :execlastid")

(***************************************************************************)
(* drivers/bun-sqlite.ts                                                   *)
(***************************************************************************)
SqliteDatabase == [name |-> "database", type |-> "Database"]

\* stmt.run(args...) and stmt.values(args...)
StmtCall(method, params) ==
    [callee |-> "stmt." \o method, args |-> ArgsArray(params)]

\* columns.map((col, i) => <colName(i, col)>: row[i] as <columnType(col)>)
SqliteFields(columns) ==
    [i \in 1..Len(columns) |->
        [name |-> colName(i - 1, columns[i]),
         value |-> [expr |-> "row[i] as <type>", index |-> i - 1,
                    type |-> SqliteColumnType(columns[i]).value]]]

\* Driver.execDecl
SqliteExecDecl(funcName, queryName, argIface, params) ==
    FunctionDeclaration(funcName, funcParamsDecl(SqliteDatabase, argIface, params),
        PromiseOf(KeywordType("void")),
        << ConstStmt(queryName), ExpressionStatement(StmtCall("run", params)) >>)

\* Driver.manyDecl
SqliteManyDecl(funcName, queryName, argIface, returnIface, params, columns) ==
    FunctionDeclaration(funcName, funcParamsDecl(SqliteDatabase, argIface, params),
        PromiseOf(ArrayType(TypeReference(returnIface))),
        << ConstStmt(queryName),
           ConstRows(StmtCall("values", params)),
           ReturnMapped([callee |-> "rows"], SqliteFields(columns)) >>)

\* Driver.oneDecl
SqliteOneDecl(funcName, queryName, argIface, returnIface, params, columns) ==
    FunctionDeclaration(funcName, funcParamsDecl(SqliteDatabase, argIface, params),
        PromiseOf(UnionType(<<TypeReference(returnIface), NullLiteral>>)),
        << ConstStmt(queryName),
           ConstRows(StmtCall("values", params)),
           IfRowsLengthNot1ReturnNull,
           ConstRowIsRows0,
           IfNotRowReturnNull,
           ReturnObject(SqliteFields(columns)) >>)

\* Driver.execlastidDecl
SqliteExeclastidDecl(funcName, queryName, argIface, params) ==
    Throw("Bun sqlite driver currently does not support :execlastid")

(***************************************************************************)
(* The declaration builders of each driver.                                *)
(***************************************************************************)
DriverExecDecl(d, funcName, text, argIface, params) ==
    IF d = TaggedDriver THEN TaggedExecDecl(funcName, text, argIface, params)
    ELSE IF d = CommonDriver THEN CommonExecDecl(funcName, text, argIface, params)
    ELSE IF d = UnsafeDriver THEN UnsafeExecDecl(funcName, text, argIface, params)
    ELSE SqliteExecDecl(funcName, text, argIface, params)

DriverExeclastidDecl(d, funcName, text, argIface, params) ==
    IF d = TaggedDriver THEN TaggedExeclastidDecl(funcName, text, argIface, params)
    ELSE IF d = CommonDriver THEN CommonExeclastidDecl(funcName, text, argIface, params)
    ELSE IF d = UnsafeDriver THEN UnsafeExeclastidDecl(funcName, text, argIface, params)
    ELSE SqliteExeclastidDecl(funcName, text, argIface, params)

DriverOneDecl(d, funcName, text, argIface, returnIface, params, columns) ==
    IF d = TaggedDriver
    THEN TaggedOneDecl(funcName, text, argIface, returnIface, params, columns)
    ELSE IF d = CommonDriver
    THEN CommonOneDecl(funcName, text, argIface, returnIface, params, columns)
    ELSE IF d = UnsafeDriver
    THEN UnsafeOneDecl(funcName, text, argIface, returnIface, params, columns)
    ELSE SqliteOneDecl(funcName, text, argIface, returnIface, params, columns)

DriverManyDecl(d, funcName, text, argIface, returnIface, params, columns) ==
    IF d = TaggedDriver
    THEN TaggedManyDecl(funcName, text, argIface, returnIface, params, columns)
    ELSE IF d = CommonDriver
    THEN CommonManyDecl(funcName, text, argIface, returnIface, params, columns)
    ELSE IF d = UnsafeDriver
    THEN UnsafeManyDecl(funcName, text, argIface, returnIface, params, columns)
    ELSE SqliteManyDecl(funcName, text, argIface, returnIface, params, columns)

(***************************************************************************)
(* app.ts, codegen: the names derived from a query and the switch over     *)
(* query.cmd.                                                              *)
(***************************************************************************)
\* query.name[0].toLowerCase() + query.name.slice(1)
LowerName(q) == ToLowerChar(CharAt(q.name, 1)) \o Slice(q.name, 1)

\* argIface after the block of the parameters: set only with parameters.
ArgIfaceOf(q) ==
    IF Len(q.params) > 0 THEN <<q.name \o "Args">> ELSE NoIface

\* returnIface after the block of the columns: set only with columns.
ReturnIfaceOf(q) ==
    IF Len(q.columns) > 0 THEN <<q.name \o "Row">> ELSE NoIface

\* returnIface ?? "void"
ReturnIfaceOrVoid(q) ==
    IF ReturnIfaceOf(q) = NoIface THEN "void" ELSE ReturnIfaceOf(q)[1]

\* A variant of the switch with no case for :many.
CallableDeclNoMany(d, q) ==
    IF q.cmd = ":exec"
    THEN Return(<<DriverExecDecl(d, LowerName(q), q.text, ArgIfaceOf(q),
                                 q.params)>>)
    ELSE IF q.cmd = ":execlastid"
    THEN DriverExeclastidDecl(d, LowerName(q), q.text, ArgIfaceOf(q),
                              q.params)
    ELSE IF q.cmd = ":one"
    THEN Return(<<DriverOneDecl(d, LowerName(q), q.text, ArgIfaceOf(q),
                                ReturnIfaceOrVoid(q), q.params, q.columns)>>)
    ELSE Return(<<>>)

\* switch (query.cmd): the nodes the switch pushes (one, or none when no case
\* matches), or the error of the driver's builder.
CallableDecl(d, q) ==
    IF q.cmd = ":exec"
    THEN Return(<<DriverExecDecl(d, LowerName(q), q.text, ArgIfaceOf(q),
                                 q.params)>>)
    ELSE IF q.cmd = ":execlastid"
    THEN DriverExeclastidDecl(d, LowerName(q), q.text, ArgIfaceOf(q),
                              q.params)
    ELSE IF q.cmd = ":one"
    THEN Return(<<DriverOneDecl(d, LowerName(q), q.text, ArgIfaceOf(q),
                                ReturnIfaceOrVoid(q), q.params, q.columns)>>)
    ELSE IF q.cmd = ":many"
    THEN Return(<<DriverManyDecl(d, LowerName(q), q.text, ArgIfaceOf(q),
                                 ReturnIfaceOrVoid(q), q.params, q.columns)>>)
    ELSE Return(<<>>)

(***************************************************************************)
(* Running an emitted function on the result set its call returns.         *)
(***************************************************************************)
JsNull == [js |-> "null"]

JsUndefined == [js |-> "undefined"]

JsString(s) == [js |-> "string", value |-> s]

JsNumber(n) == [js |-> "number", number |-> n]

JsRow(cells) == [js |-> "row", cells |-> cells]

JsObject(fields) == [js |-> "object", fields |-> fields]

JsArray(items) == [js |-> "array", items |-> items]

\* !v is false for a row (an array or an object), true for null and undefined.
Truthy(v) == v # JsNull /\ v # JsUndefined

\* rows[0]: undefined when rows is empty.
Rows0(rows) == IF Len(rows) >= 1 THEN rows[1] ELSE JsUndefined

JsNaN == [js |-> "NaN"]

\* Number(v) of a string, a number or null: a string that is not a numeral
\* gives NaN.
NumberOf(v) ==
    IF v = JsNull THEN JsNumber(0)
    ELSE IF v.js = "string"
         THEN IF Len(v.value) > 0 /\ DigitRun(v.value, 1) = Len(v.value)
              THEN JsNumber(ParseInt(v.value))
              ELSE IF v.value = "" THEN JsNumber(0) ELSE JsNaN
    ELSE v

\* The value of a row access expression on a row.
EvalRowAccess(e, row) ==
    LET cell == row.cells[e.index + 1]
    IN  IF e.expr = "Number(row[i])" THEN NumberOf(cell)
        ELSE IF e.expr = "row[i] === null ? null : Number(row[i])"
             THEN IF cell = JsNull THEN JsNull ELSE NumberOf(cell)
        ELSE cell

\* { name: <access>, ... } on a row
EvalObject(fields, row) ==
    JsObject([i \in 1..Len(fields) |->
                [name |-> fields[i].name, value |-> EvalRowAccess(fields[i].value, row)]])

Returned(v) == [raised |-> FALSE, value |-> v]

\* The statements from the first on, with rows and row as bound so far; the
\* result set is what the call of the body returns.
RECURSIVE RunStatements(_, _, _, _)
RunStatements(stmts, fetched, rows, row) ==
    IF stmts = <<>> THEN Returned(JsUndefined)
    ELSE LET s == Head(stmts)
             rest == Tail(stmts)
         IN  IF s.stmt = "const rows = <call>"
             THEN RunStatements(rest, fetched, fetched, row)
             ELSE IF s.stmt = "if (rows.length !== 1) { return null }"
             THEN IF Len(rows) # 1 THEN Returned(JsNull)
                  ELSE RunStatements(rest, fetched, rows, row)
             ELSE IF s.stmt = "const row = rows[0]"
             THEN RunStatements(rest, fetched, rows, Rows0(rows))
             ELSE IF s.stmt = "if (!row) { return null }"
             THEN IF ~Truthy(row) THEN Returned(JsNull)
                  ELSE RunStatements(rest, fetched, rows, row)
             ELSE IF s.stmt = "return rows[0] ?? null"
             THEN IF Truthy(Rows0(rows)) THEN Returned(Rows0(rows)) ELSE Returned(JsNull)
             ELSE IF s.stmt = "return { <fields> }"
             THEN Returned(EvalObject(s.fields, row))
             ELSE IF s.stmt = "return <call>"
             THEN Returned(JsArray(fetched))
             ELSE IF s.stmt = "return <call>.map(row => ({ <fields> }))"
             THEN Returned(JsArray([i \in 1..Len(fetched) |->
                                        EvalObject(s.fields, fetched[i])]))
             ELSE RunStatements(rest, fetched, rows, row)

\* The call of an emitted function whose query returns fetched.
RunDeclaration(decl, fetched) == RunStatements(decl.body, fetched, <<>>, JsUndefined)

(***************************************************************************)
(* app.ts: the pieces of codegen.                                          *)
(***************************************************************************)
\* export function preamble(): import type { Sql } from "postgres"
preamble ==
    << [node |-> "import", typeOnly |-> TRUE, names |-> <<"Sql">>, from |-> "postgres"] >>

\* factory.createInterfaceDeclaration([export], name, ..., members)
InterfaceDeclaration(name, members) ==
    [node |-> "interface", name |-> name, members |-> members]

\* function enumTypeDecl(name: string, enumDef: Enum): Node
enumTypeDecl(name, enumDef) ==
    [node |-> "typeAlias", name |-> pascalCase(name),
     type |-> UnionType([i \in 1..Len(enumDef.vals) |->
                            [node |-> "literal", text |-> enumDef.vals[i]]])]

\* set.add(x) on a Set kept as the sequence of its members in insertion order
SetAdd(members, x) ==
    IF \E i \in 1..Len(members) : members[i] = x THEN members ELSE Append(members, x)

\* A variant of the grouping that puts a new filename before the others.
RECURSIVE GroupByFilenameNewestFirst(_, _)
GroupByFilenameNewestFirst(queries, entries) ==
    IF queries = <<>> THEN entries
    ELSE LET q == Head(queries)
             has == \E i \in 1..Len(entries) : entries[i].filename = q.filename
             withKey == IF has THEN entries
                        ELSE <<[filename |-> q.filename, queries |-> <<>>]>> \o entries
             pushed == [i \in 1..Len(withKey) |->
                          IF withKey[i].filename = q.filename
                          THEN [withKey[i] EXCEPT !.queries = Append(@, q)]
                          ELSE withKey[i]]
         IN  GroupByFilenameNewestFirst(Tail(queries), pushed)

\* The loop that fills querymap: a Map from filename to the queries of that
\* filename, kept as the sequence of its entries in insertion order.
RECURSIVE GroupByFilename(_, _)
GroupByFilename(queries, entries) ==
    IF queries = <<>> THEN entries
    ELSE LET q == Head(queries)
             has == \E i \in 1..Len(entries) : entries[i].filename = q.filename
             withKey == IF has THEN entries
                        ELSE Append(entries, [filename |-> q.filename, queries |-> <<>>])
             pushed == [i \in 1..Len(withKey) |->
                          IF withKey[i].filename = q.filename
                          THEN [withKey[i] EXCEPT !.queries = Append(@, q)]
                          ELSE withKey[i]]
         IN  GroupByFilename(Tail(queries), pushed)

\* str.replace(pattern, by) with a string pattern: the first occurrence only
RECURSIVE ReplaceFirst(_, _, _)
ReplaceFirst(str, pattern, by) ==
    IF Len(str) < Len(pattern) THEN str
    ELSE IF StartsWith(str, pattern) THEN by \o Slice(str, Len(pattern))
    ELSE CharAt(str, 1) \o ReplaceFirst(Slice(str, 1), pattern, by)

\* A variant of the file name that replaces every "." of the filename.
FileNameEveryDot(filename) ==
    Join([i \in 1..Len(filename) |->
            IF CharAt(filename, i) = "." THEN "_" ELSE CharAt(filename, i)]) \o ".ts"

\* `${filename.replace(".", "_")}.ts`
FileName(filename) == ReplaceFirst(filename, ".", "_") \o ".ts"

\* function printNode(nodes: Node[]): string, as the header and the printed
\* nodes in order
printNode(printed) ==
    [header |-> "// Code generated by sqlc. DO NOT EDIT.", nodes |-> printed]

\* new File({ name, contents })
File(name, contents) == [name |-> name, contents |-> contents]

\* query.params.map((param, i) => argName(i, param.column))
ArgNames(q) == [i \in 1..Len(q.params) |-> argName(i - 1, q.params[i].column)]

\* query.columns.map((column, i) => colName(i, column))
ColNames(q) == [i \in 1..Len(q.columns) |-> colName(i - 1, q.columns[i])]

\* query.params.map((param) => param.column)
ParamColumns(q) == [i \in 1..Len(q.params) |-> q.params[i].column]

\* for (const col of cols) { const enumName = getEnumName(col);
\*                           if (enumName) names.add(enumName) }
RECURSIVE AddEnums(_, _, _)
AddEnums(names, map, cols) ==
    IF cols = <<>> THEN names
    ELSE LET enumName == getEnumName(map, Head(cols))
         IN  AddEnums(IF enumName # <<>> THEN SetAdd(names, enumName[1]) ELSE names,
                      map, Tail(cols))

\* A variant of the interface builder that gives `any` to a column whose type
\* the mapper does not classify.
InterfaceOfLenient(name, fieldNames, map, cols) ==
    LET types == [i \in 1..Len(cols) |-> columnType(map, cols[i])]
    IN  Return(InterfaceDeclaration(name,
            [i \in 1..Len(cols) |->
                [name |-> fieldNames[i],
                 type |-> IF types[i].raised THEN KeywordType("any")
                          ELSE types[i].value]]))

\* factory.createInterfaceDeclaration(..., cols.map((col, i) =>
\*   factory.createPropertySignature(undefined, <name i>, undefined, columnType(col)))):
\* the interface, or the error of the first columnType that raises.
InterfaceOf(name, fieldNames, map, cols) ==
    LET types == [i \in 1..Len(cols) |-> columnType(map, cols[i])]
        raising == {i \in 1..Len(cols) : types[i].raised}
    IN  IF raising # {}
        THEN types[CHOOSE i \in raising : \A j \in raising : i <= j]
        ELSE Return(InterfaceDeclaration(name,
                 [i \in 1..Len(cols) |-> [name |-> fieldNames[i], type |-> types[i].value]]))

\* `Error in query "${query.name}" (${filename}): ${err.message}`
QueryErrorMessage(q, filename, message) ==
    "Error in query \"" \o q.name \o "\" (" \o filename \o "): " \o message

\* for (const enumName of fileEnums) { const enumDef = enumMap.get(enumName);
\*                                     if (enumDef) enumNodes.push(enumTypeDecl(enumName, enumDef)) }
RECURSIVE EnumNodes(_, _)
EnumNodes(names, map) ==
    IF names = <<>> THEN <<>>
    ELSE (IF Head(names) \in DOMAIN map
          THEN <<enumTypeDecl(Head(names), map[Head(names)])>> ELSE <<>>)
         \o EnumNodes(Tail(names), map)

\* A variant of splice that puts the items at the end.
SpliceAtEnd(list, start, items) == list \o items

\* nodes.splice(start, 0, ...items)
Splice(list, start, items) ==
    LET at == IF start > Len(list) THEN Len(list) ELSE start
    IN  SubSeq(list, 1, at) \o items \o SubSeq(list, at + 1, Len(list))

\* new GenerateResponse({ files })
GenerateResponse(fs) == [files |-> fs]

\* A request: the catalog and the queries (GenerateRequest).
GenerateRequest(catalog, queries) == [catalog |-> catalog, queries |-> queries]


(***************************************************************************)
(* The files of a request, as a function of the request alone.             *)
(***************************************************************************)
\* One interface block of a query, on the nodes and the enum names so far.
IfaceOutcome(map, filename, q, kind, ifaceName, names, cols, acc) ==
    IF acc.raised \/ Len(cols) = 0 THEN acc
    ELSE LET checked == assertUniqueNames([kind |-> kind, queryName |-> q.name,
                                           fileName |-> filename, names |-> names])
             iface == InterfaceOf(ifaceName, names, map, cols)
         IN  IF checked.raised \/ iface.raised THEN [acc EXCEPT !.raised = TRUE]
             ELSE [nodes |-> Append(acc.nodes, iface.value),
                   fileEnums |-> AddEnums(acc.fileEnums, map, cols),
                   raised |-> FALSE]

\* The body of the loop over the queries of a file.
QueryOutcome(map, filename, q, acc) ==
    LET a1 == IfaceOutcome(map, filename, q, "argument", q.name \o "Args",
                           ArgNames(q), ParamColumns(q), acc)
        a2 == IfaceOutcome(map, filename, q, "column", q.name \o "Row",
                           ColNames(q), q.columns, a1)
        built == CallableDecl(TaggedDriver, q)
    IN  IF a2.raised THEN a2
        ELSE IF built.raised THEN [a2 EXCEPT !.raised = TRUE]
        ELSE [a2 EXCEPT !.nodes = @ \o built.value]

RECURSIVE QueriesOutcome(_, _, _, _, _)
QueriesOutcome(map, filename, qs, k, acc) ==
    IF k > Len(qs) THEN acc
    ELSE QueriesOutcome(map, filename, qs, k + 1, QueryOutcome(map, filename, qs[k], acc))

\* The body of the loop over the files.
FileOutcome(map, entry) ==
    LET acc == QueriesOutcome(map, entry.filename, entry.queries, 1,
                              [nodes |-> preamble, fileEnums |-> <<>>, raised |-> FALSE])
    IN  IF acc.raised THEN [raised |-> TRUE]
        ELSE [raised |-> FALSE,
              file |-> File(FileName(entry.filename),
                            printNode(Splice(acc.nodes, Len(preamble),
                                             EnumNodes(acc.fileEnums, map))))]

\* codegen(request) in a new instance of the modules.
FirstRun(request) ==
    LET map == buildEnumMap(request)
        entries == GroupByFilename(request.queries, <<>>)
        outcomes == [i \in 1..Len(entries) |-> FileOutcome(map, entries[i])]
    IN  IF \E i \in 1..Len(entries) : outcomes[i].raised THEN [raised |-> TRUE]
        ELSE [raised |-> FALSE,
              value |-> GenerateResponse([i \in 1..Len(entries) |-> outcomes[i].file])]

\* ---- specifications ----
(***************************************************************************)
(* The validator on its own: any list of derived names, then the call.     *)
(***************************************************************************)
DerivedNames == {"id", "Id", "startedAt"}

NotCalled == [called |-> FALSE]

ValidateOptions ==
    [kind : {"argument", "column"},
     queryName : {"GetJobRunStats", "ListUsers"},
     fileName : {"users.sql"},
     names : SeqUpTo(DerivedNames, MaxNames)]

ValidateIdle == options = Undefined /\ thrown = NotCalled

TypesIdle == mapper = "" /\ column = Undefined /\ typ = NotCalled

DriverIdle ==
    /\ driver = ""
    /\ query = Undefined
    /\ resultSet = <<>>
    /\ emitted = NotCalled
    /\ returned = NotCalled

CodegenIdle ==
    /\ input = Undefined
    /\ querymap = <<>>
    /\ files = <<>>
    /\ nodes = <<>>
    /\ fileEnums = <<>>
    /\ usedEnums = {}
    /\ fi = 0
    /\ qi = 0
    /\ pc = "idle"
    /\ failure = NoThrow
    /\ result = Undefined
    /\ stdout = <<>>
    /\ previous = Undefined

ValidateInit ==
    /\ options \in ValidateOptions
    /\ thrown = NotCalled
    /\ enumMap = EmptyMap
    /\ TypesIdle
    /\ DriverIdle
    /\ CodegenIdle

CallAssertUniqueNames ==
    /\ thrown = NotCalled
    /\ thrown' = [called |-> TRUE, outcome |-> assertUniqueNames(options)]
    /\ UNCHANGED <<options, enumMap, vTypes, vDriver, vCodegen>>

ValidateNext == CallAssertUniqueNames

SpecValidate == ValidateInit /\ [][ValidateNext]_vars

(***************************************************************************)
(* A type mapper on its own: any column, under any lookup a run installs,  *)
(* then the call of one driver's columnType.                               *)
(***************************************************************************)
\* Type names no mapper lists, names with the pg_catalog. prefix or in upper
\* case, and names that are or resemble keys of the lookup.
OtherTypeNames ==
    {"geometry", "pg_catalog.int4", "pg_catalog.timestamptz", "pg_catalog.point",
     "INT8", "Text", "author_status", "AUTHOR_STATUS", "status", "alt.status",
     "mood", "alt.mood", "pg_catalog.status", "sys_kind"}

TypeNames ==
    StrictBoolean \cup StrictDate \cup StrictNumber \cup StrictJson \cup StrictString
    \cup StrictGeometric \cup CommonString \cup CommonNumber \cup SqliteNumber
    \cup SqliteString \cup {"bytea", "void", "blob"} \cup OtherTypeNames

ColumnNames == {"", "author_id"}

Columns ==
    {Undefined} \cup
    {Column(n, t, nn, arr, dims) :
        n \in ColumnNames,
        t \in {Undefined} \cup {Identifier(tn) : tn \in TypeNames},
        nn \in BOOLEAN, arr \in BOOLEAN, dims \in 0..MaxDims}

TypesInit ==
    /\ mapper \in Drivers
    /\ enumMap \in EnumMaps
    /\ column \in Columns
    /\ typ = NotCalled
    /\ ValidateIdle
    /\ DriverIdle
    /\ CodegenIdle

CallColumnType ==
    /\ typ = NotCalled
    /\ typ' = [called |-> TRUE, outcome |-> DriverColumnType(mapper, enumMap, column)]
    /\ UNCHANGED <<mapper, column, enumMap, vValidate, vDriver, vCodegen>>

TypesNext == CallColumnType

SpecTypes == TypesInit /\ [][TypesNext]_vars


(***************************************************************************)
(* A driver's callable on its own: the switch over query.cmd builds the    *)
(* function for a query, and the function runs on a result set.            *)
(***************************************************************************)
MaxRows == 3

Int8 == Identifier("int8")

Text == Identifier("text")

ParamSets ==
    { <<>>,
      << Parameter(1, Column("author_id", Int8, TRUE, FALSE, 0)) >>,
      << Parameter(1, Column("", Text, FALSE, FALSE, 0)) >> }

ColumnSets ==
    { << Column("id", Identifier("pg_catalog.int8"), TRUE, FALSE, 0),
         Column("full_name", Text, FALSE, FALSE, 0) >>,
      << Column("", Identifier("bigserial"), FALSE, FALSE, 0) >>,
      << Column("total", Identifier("BIGINT"), FALSE, FALSE, 0),
         Column("n", Identifier("int4"), TRUE, FALSE, 0) >>,
      << Column("seq", Identifier("serial8"), TRUE, FALSE, 0) >> }

Cmds == {":exec", ":execlastid", ":one", ":many", ":copyfrom"}

QueryText(params) ==
    IF params = <<>> THEN "SELECT id, full_name FROM authors"
    ELSE "SELECT id, full_name FROM authors WHERE id = $1"

DriverQueries ==
    { Query("authors.sql", "GetAuthor", cmd, QueryText(params), params, columns) :
        cmd \in Cmds, params \in ParamSets, columns \in ColumnSets }

\* The rows a query of two columns can return, as the database client hands
\* them over: an int8 arrives as a string of digits.
ResultRows ==
    { JsRow(<<JsString("7"), JsString("Ann")>>),
      JsRow(<<JsString("12"), JsNull>>),
      JsRow(<<JsNull, JsString("Bob")>>) }

DriverInit ==
    /\ driver \in Drivers
    /\ query \in DriverQueries
    /\ resultSet \in SeqUpTo(ResultRows, MaxRows)
    /\ emitted = NotCalled
    /\ returned = NotCalled
    /\ enumMap = EmptyMap
    /\ ValidateIdle
    /\ TypesIdle
    /\ CodegenIdle

\* The switch over query.cmd with the builders of the driver.
EmitDecl ==
    /\ emitted = NotCalled
    /\ emitted' = [called |-> TRUE, outcome |-> CallableDecl(driver, query)]
    /\ UNCHANGED <<driver, query, resultSet, returned, enumMap, vValidate, vTypes,
                   vCodegen>>

\* A call of the emitted function.
CallDecl ==
    /\ emitted # NotCalled
    /\ ~emitted.outcome.raised
    /\ emitted.outcome.value # <<>>
    /\ returned = NotCalled
    /\ returned' = [called |-> TRUE,
                    outcome |-> RunDeclaration(emitted.outcome.value[1], resultSet)]
    /\ UNCHANGED <<driver, query, resultSet, emitted, enumMap, vValidate, vTypes,
                   vCodegen>>

DriverNext == EmitDecl \/ CallDecl

SpecDriver == DriverInit /\ [][DriverNext]_vars


(***************************************************************************)
(* A run of the plugin: readInput, codegen, writeOutput.  An error raised  *)
(* in codegen is not caught: the run ends there.                           *)
(***************************************************************************)
MaxQueries == 2

Col(name, typeName) == Column(name, Identifier(typeName), TRUE, FALSE, 0)

Param(number, name, typeName) == Parameter(number, Col(name, typeName))

\* Queries of every command kind, with and without parameters and columns,
\* with enum types, with colliding derived names and with a type the mapper
\* does not classify, in two source files.
QuerySet ==
    { Query("authors.sql", "GetAuthor", ":one", "SELECT id, name FROM a WHERE id = $1",
            <<Param(1, "id", "int8")>>,
            <<Col("id", "int8"), Column("name", Text, FALSE, FALSE, 0)>>),
      Query("authors.sql", "ListAuthors", ":many", "SELECT id, status FROM a",
            <<>>, <<Col("id", "int8"), Col("status", "author_status")>>),
      Query("authors.sql", "SetStatus", ":exec", "UPDATE a SET status = $1 WHERE id = $2",
            <<Param(1, "status", "author_status"), Param(2, "id", "int8")>>, <<>>),
      Query("authors.sql", "DeleteAuthor", ":exec", "DELETE FROM a WHERE id = $1 RETURNING id",
            <<Param(1, "id", "int8")>>, <<Col("id", "int8")>>),
      Query("authors.sql", "CreateAuthor", ":execlastid", "INSERT INTO a VALUES ($1)",
            <<Param(1, "name", "text")>>, <<>>),
      Query("authors.sql", "CopyAuthors", ":copyfrom", "INSERT INTO a VALUES ($1)",
            <<Param(1, "name", "text")>>, <<>>),
      Query("authors.sql", "GetStatus", ":one", "SELECT status FROM a WHERE id = $1",
            <<Param(1, "id", "int8")>>, <<Col("status", "AUTHOR_STATUS")>>),
      Query("jobs.sql", "GetMood", ":one", "SELECT mood FROM j",
            <<>>, <<Col("mood", "mood")>>),
      Query("jobs.sql", "ListMoods", ":many", "SELECT mood FROM j WHERE mood = $1",
            <<Param(1, "m", "alt.mood")>>, <<Col("mood", "alt.mood")>>),
      Query("jobs.sql", "ListStatus", ":many", "SELECT s FROM j",
            <<>>, <<Col("s", "status")>>),
      Query("jobs.sql", "DupArgs", ":exec", "UPDATE j SET u = $1 WHERE u = $2",
            <<Param(1, "user_id", "int8"), Param(2, "userId", "int8")>>, <<>>),
      Query("jobs.sql", "DupCols", ":many", "SELECT a.id, b.id FROM a, b WHERE a.id = $1",
            <<Param(1, "id", "int8")>>, <<Col("id", "int8"), Col("id", "text")>>),
      Query("jobs.sql", "GetKind", ":one", "SELECT k FROM j",
            <<>>, <<Col("k", "pg_catalog.status")>>),
      Query("jobs.sql", "ListPrices", ":many", "SELECT '$1' FROM j",
            <<>>, <<Col("p", "text")>>),
      Query("jobs.sql", "BadType", ":one", "SELECT g FROM j",
            <<>>, <<Col("g", "geometry")>>),
      Query("jobs.sql", "CountJobs", ":one", "SELECT count(*) FROM j WHERE k = $1",
            <<Param(1, "", "text")>>, <<Col("", "int8")>>) }

Requests ==
    { GenerateRequest(c, qs) : c \in Catalogs, qs \in SeqUpTo(QuerySet, MaxQueries) }

Failure(message, at) == [raised |-> TRUE, message |-> message, at |-> at]

CodegenInit ==
    /\ input \in Requests
    /\ enumMap = EmptyMap
    /\ querymap = <<>>
    /\ files = <<>>
    /\ nodes = <<>>
    /\ fileEnums = <<>>
    /\ usedEnums = {}
    /\ fi = 0
    /\ qi = 0
    /\ pc = "codegen"
    /\ failure = NoThrow
    /\ result = Undefined
    /\ stdout = <<>>
    /\ previous = Undefined
    /\ ValidateIdle
    /\ TypesIdle
    /\ DriverIdle

vOthers == <<vValidate, vTypes, vDriver, previous>>

\* const [filename, queries] of querymap.entries(), and the query of the loop
CurrentFilename == querymap[fi].filename

CurrentQuery == querymap[fi].queries[qi]

\* A variant of the start that keeps a lookup a run before has installed.
StartCodegenKeepLookup ==
    /\ pc = "codegen"
    /\ enumMap' = IF enumMap = EmptyMap THEN buildEnumMap(input) ELSE enumMap
    /\ querymap' = GroupByFilename(input.queries, <<>>)
    /\ usedEnums' = {}
    /\ files' = <<>>
    /\ fi' = 1
    /\ pc' = "file"
    /\ UNCHANGED <<input, nodes, fileEnums, qi, failure, result, stdout, vOthers>>

\* codegen, up to the loop over the files: the lookup is built and installed
\* and the queries are grouped by filename.
StartCodegen ==
    /\ pc = "codegen"
    /\ enumMap' = buildEnumMap(input)
    /\ querymap' = GroupByFilename(input.queries, <<>>)
    /\ usedEnums' = {}
    /\ files' = <<>>
    /\ fi' = 1
    /\ pc' = "file"
    /\ UNCHANGED <<input, nodes, fileEnums, qi, failure, result, stdout, vOthers>>

\* A variant of the head of the loop that installs an empty lookup.
BeginFileEmptyLookup ==
    /\ pc = "file"
    /\ fi <= Len(querymap)
    /\ enumMap' = EmptyMap
    /\ nodes' = preamble
    /\ fileEnums' = <<>>
    /\ qi' = 1
    /\ pc' = "args"
    /\ UNCHANGED <<input, querymap, files, usedEnums, fi, failure, result, stdout,
                   vOthers>>

\* The head of the loop over the files.
BeginFile ==
    /\ pc = "file"
    /\ fi <= Len(querymap)
    /\ nodes' = preamble
    /\ fileEnums' = <<>>
    /\ qi' = 1
    /\ pc' = "args"
    /\ UNCHANGED <<input, enumMap, querymap, files, usedEnums, fi, failure, result,
                   stdout, vOthers>>

\* The block of one interface of the query: the names are checked, the enum
\* names are recorded, the interface is pushed.
InterfaceStep(kind, ifaceName, names, cols, next) ==
    IF Len(cols) = 0
    THEN /\ pc' = next
         /\ UNCHANGED <<nodes, fileEnums, usedEnums, failure>>
    ELSE LET checked == assertUniqueNames([kind |-> kind, queryName |-> CurrentQuery.name,
                                           fileName |-> CurrentFilename, names |-> names])
             recorded == AddEnums(fileEnums, enumMap, cols)
             iface == InterfaceOf(ifaceName, names, enumMap, cols)
         IN  IF checked.raised
             THEN /\ failure' = Failure(checked.message, kind \o " names")
                  /\ pc' = "failed"
                  /\ UNCHANGED <<nodes, fileEnums, usedEnums>>
             ELSE /\ fileEnums' = recorded
                  /\ usedEnums' = usedEnums \cup {recorded[i] : i \in 1..Len(recorded)}
                  /\ IF iface.raised
                     THEN /\ failure' = Failure(QueryErrorMessage(CurrentQuery,
                                                   CurrentFilename, iface.message),
                                                kind \o " interface")
                          /\ pc' = "failed"
                          /\ UNCHANGED nodes
                     ELSE /\ nodes' = Append(nodes, iface.value)
                          /\ pc' = next
                          /\ UNCHANGED failure

\* if (query.params.length > 0) { ... }
ArgsInterface ==
    /\ pc = "args"
    /\ InterfaceStep("argument", CurrentQuery.name \o "Args", ArgNames(CurrentQuery),
                     ParamColumns(CurrentQuery), "columns")
    /\ UNCHANGED <<input, enumMap, querymap, files, fi, qi, result, stdout, vOthers>>

\* if (query.columns.length > 0) { ... }
RowInterface ==
    /\ pc = "columns"
    /\ InterfaceStep("column", CurrentQuery.name \o "Row", ColNames(CurrentQuery),
                     CurrentQuery.columns, "switch")
    /\ UNCHANGED <<input, enumMap, querymap, files, fi, qi, result, stdout, vOthers>>

\* switch (query.cmd) { ... }, and the step of the loop over the queries
Callable ==
    /\ pc = "switch"
    /\ LET built == CallableDecl(TaggedDriver, CurrentQuery)
       IN  IF built.raised
           THEN /\ failure' = Failure(built.message, "callable")
                /\ pc' = "failed"
                /\ UNCHANGED <<nodes, qi>>
           ELSE /\ nodes' = nodes \o built.value
                /\ IF qi < Len(querymap[fi].queries)
                   THEN qi' = qi + 1 /\ pc' = "args"
                   ELSE qi' = qi /\ pc' = "endfile"
                /\ UNCHANGED failure
    /\ UNCHANGED <<input, enumMap, querymap, files, fileEnums, usedEnums, fi, result,
                   stdout, vOthers>>

\* After the queries of a file: the enum declarations are inserted after the
\* preamble and the file is pushed.
EndFile ==
    /\ pc = "endfile"
    /\ nodes' = Splice(nodes, Len(preamble), EnumNodes(fileEnums, enumMap))
    /\ files' = Append(files, File(FileName(CurrentFilename), printNode(nodes')))
    /\ fi' = fi + 1
    /\ pc' = "file"
    /\ UNCHANGED <<input, enumMap, querymap, fileEnums, usedEnums, qi, failure, result,
                   stdout, vOthers>>

\* return new GenerateResponse({ files }), bound to result
ReturnResponse ==
    /\ pc = "file"
    /\ fi > Len(querymap)
    /\ result' = GenerateResponse(files)
    /\ pc' = "writeOutput"
    /\ UNCHANGED <<input, enumMap, querymap, files, nodes, fileEnums, usedEnums, fi, qi,
                   failure, stdout, vOthers>>

\* writeOutput(result)
WriteOutput ==
    /\ pc = "writeOutput"
    /\ stdout' = <<result>>
    /\ pc' = "done"
    /\ UNCHANGED <<input, enumMap, querymap, files, nodes, fileEnums, usedEnums, fi, qi,
                   failure, result, vOthers>>

Next ==
    \/ StartCodegen
    \/ BeginFile
    \/ ArgsInterface
    \/ RowInterface
    \/ Callable
    \/ EndFile
    \/ ReturnResponse
    \/ WriteOutput

Spec == CodegenInit /\ [][Next]_vars


(***************************************************************************)
(* buildTaggedTemplate on its own: any SQL text over a small alphabet with *)
(* any of a few parameter lists, then the call.                            *)
(***************************************************************************)
MaxText == 5

TemplateChars == {"a", "$", "0", "1", "2"}

Texts == {Join(cs) : cs \in SeqUpTo(TemplateChars, MaxText)}

TemplateParams ==
    { <<>>,
      << Param(1, "author_id", "int8") >>,
      << Param(1, "author_id", "int8"), Param(2, "", "text") >> }

TemplateInit ==
    /\ query \in {Query("authors.sql", "GetAuthor", ":one", t, ps, <<>>) :
                     t \in Texts, ps \in TemplateParams}
    /\ driver = ""
    /\ resultSet = <<>>
    /\ emitted = NotCalled
    /\ returned = NotCalled
    /\ enumMap = EmptyMap
    /\ ValidateIdle
    /\ TypesIdle
    /\ CodegenIdle

CallBuildTaggedTemplate ==
    /\ driver = ""
    /\ emitted = NotCalled
    /\ emitted' = [called |-> TRUE,
                   outcome |-> Return(buildTaggedTemplate(query.text, query.params))]
    /\ UNCHANGED <<driver, query, resultSet, returned, enumMap, vValidate, vTypes,
                   vCodegen>>

TemplateNext == CallBuildTaggedTemplate

SpecTemplate == TemplateInit /\ [][TemplateNext]_vars


(***************************************************************************)
(* The run of the plugin on requests whose queries differ in their source  *)
(* file and their name only: the grouping by filename and the file names.  *)
(***************************************************************************)
MaxFileQueries == 3

SourceFilenames == {"authors.sql", "db.v2.sql", "a.sql", "a_sql"}

FileQueries ==
    { Query(f, n, ":exec", "SELECT 1", <<>>, <<>>) :
        f \in SourceFilenames, n \in {"First", "Second"} }

FileRequests ==
    { GenerateRequest(Undefined, qs) : qs \in SeqUpTo(FileQueries, MaxFileQueries) }

FilesInit ==
    /\ input \in FileRequests
    /\ enumMap = EmptyMap
    /\ querymap = <<>>
    /\ files = <<>>
    /\ nodes = <<>>
    /\ fileEnums = <<>>
    /\ usedEnums = {}
    /\ fi = 0
    /\ qi = 0
    /\ pc = "codegen"
    /\ failure = NoThrow
    /\ result = Undefined
    /\ stdout = <<>>
    /\ previous = Undefined
    /\ ValidateIdle
    /\ TypesIdle
    /\ DriverIdle

SpecFiles == FilesInit /\ [][Next]_vars


(***************************************************************************)
(* buildEnumMap on its own: any catalog of a few schemas, then the head of *)
(* codegen, which builds and installs the lookup.                          *)
(***************************************************************************)
MaxSchemas == 2

SchemaNames == {"pg_catalog", "information_schema", "public", "alt"}

EnumLists ==
    { <<>>,
      << Enum("status", <<"on", "off">>) >>,
      << Enum("status", <<"hi", "lo">>), Enum("mood", <<"sad", "ok">>) >>,
      << Enum("sys_kind", <<"x">>) >> }

Schemas == {Schema(n, es) : n \in SchemaNames, es \in EnumLists}

EnumRequests ==
    {GenerateRequest(Undefined, <<>>)} \cup
    { GenerateRequest(Catalog(d, ss), <<>>) :
        d \in {"public", "alt"}, ss \in SeqUpTo(Schemas, MaxSchemas) }

EnumMapInit ==
    /\ input \in EnumRequests
    /\ enumMap = EmptyMap
    /\ querymap = <<>>
    /\ files = <<>>
    /\ nodes = <<>>
    /\ fileEnums = <<>>
    /\ usedEnums = {}
    /\ fi = 0
    /\ qi = 0
    /\ pc = "codegen"
    /\ failure = NoThrow
    /\ result = Undefined
    /\ stdout = <<>>
    /\ previous = Undefined
    /\ ValidateIdle
    /\ TypesIdle
    /\ DriverIdle

EnumMapNext == StartCodegen

SpecEnumMap == EnumMapInit /\ [][EnumMapNext]_vars


(***************************************************************************)
(* Calls of codegen one after another in one instance of the modules: the  *)
(* locals of codegen are new in every call, the lookup of the driver       *)
(* module is what the call before left.                                    *)
(***************************************************************************)
MaxRunQueries == 1

RunQueries == {q \in QuerySet : q.name \in {"ListAuthors", "ListStatus", "GetMood", "BadType"}}

RunRequests ==
    { GenerateRequest(c, qs) : c \in Catalogs, qs \in SeqUpTo(RunQueries, MaxRunQueries) }

RunsInit ==
    /\ input \in RunRequests
    /\ enumMap = EmptyMap
    /\ querymap = <<>>
    /\ files = <<>>
    /\ nodes = <<>>
    /\ fileEnums = <<>>
    /\ usedEnums = {}
    /\ fi = 0
    /\ qi = 0
    /\ pc = "codegen"
    /\ failure = NoThrow
    /\ result = Undefined
    /\ stdout = <<>>
    /\ previous = Undefined
    /\ ValidateIdle
    /\ TypesIdle
    /\ DriverIdle

\* const input = readInput(); const result = codegen(input); once more, after
\* the call before has returned or thrown.
NextRun ==
    /\ pc \in {"done", "failed"}
    /\ previous' = input
    /\ input' \in RunRequests
    /\ querymap' = <<>>
    /\ files' = <<>>
    /\ nodes' = <<>>
    /\ fileEnums' = <<>>
    /\ usedEnums' = {}
    /\ fi' = 0
    /\ qi' = 0
    /\ pc' = "codegen"
    /\ failure' = NoThrow
    /\ result' = Undefined
    /\ stdout' = <<>>
    /\ UNCHANGED <<enumMap, vValidate, vTypes, vDriver>>

RunsNext == Next \/ NextRun

SpecRuns == RunsInit /\ [][RunsNext]_vars


(***************************************************************************)
(* codegen on requests whose enum names come close to one another and to   *)
(* the names of the interfaces.                                            *)
(***************************************************************************)
MaxJobQueries == 2

CatalogJobs ==
    Catalog("public",
            << Schema("public", << Enum("job_kind", <<"cron", "once">>),
                                   Enum("job__kind", <<"batch">>),
                                   Enum("get_job_row", <<"full", "brief">>) >>) >>)

JobQueries ==
    { Query("jobs.sql", "GetJob", ":one", "SELECT kind FROM j WHERE id = $1",
            <<Param(1, "id", "int8")>>, <<Col("kind", "job_kind")>>),
      Query("jobs.sql", "ListJobs", ":many", "SELECT kind2 FROM j",
            <<>>, <<Col("kind2", "job__kind")>>),
      Query("jobs.sql", "SetShape", ":exec", "UPDATE j SET shape = $1",
            <<Param(1, "shape", "get_job_row")>>, <<>>),
      Query("owners.sql", "GetOwner", ":one", "SELECT name FROM o WHERE kind = $1",
            <<Param(1, "kind", "job_kind")>>, <<Col("name", "text")>>) }

JobRequests ==
    { GenerateRequest(CatalogJobs, qs) : qs \in SeqUpTo(JobQueries, MaxJobQueries) }

JobsInit ==
    /\ input \in JobRequests
    /\ enumMap = EmptyMap
    /\ querymap = <<>>
    /\ files = <<>>
    /\ nodes = <<>>
    /\ fileEnums = <<>>
    /\ usedEnums = {}
    /\ fi = 0
    /\ qi = 0
    /\ pc = "codegen"
    /\ failure = NoThrow
    /\ result = Undefined
    /\ stdout = <<>>
    /\ previous = Undefined
    /\ ValidateIdle
    /\ TypesIdle
    /\ DriverIdle

SpecJobs == JobsInit /\ [][Next]_vars


\* ---- claims ----
(***************************************************************************)
(* C1                                                                      *)
(***************************************************************************)
Occurrences(names, n) == Cardinality({i \in 1..Len(names) : names[i] = n})

RepeatedNames(names) ==
    {n \in {names[i] : i \in 1..Len(names)} : Occurrences(names, n) > 1}

\* The lines of a message that list a duplicate, with the "- " taken off.
ListedNames(message) ==
    LET listed == SelectSeq(message, LAMBDA line : StartsWith(line, "- "))
    IN  [i \in 1..Len(listed) |-> SubSeq(listed[i], 3, Len(listed[i]))]

\* C1: assertUniqueNames raises if and only if some name occurs more than once
\* in names; the message it raises lists every repeated name exactly once, in
\* sorted order, and names the kind, the query and the file; a list with no
\* repeats returns without raising.
C1_UniqueNames ==
    thrown # NotCalled =>
        LET out == thrown.outcome
            repeated == RepeatedNames(options.names)
        IN  /\ out.raised <=> repeated # {}
            /\ out.raised =>
                LET listed == ListedNames(out.message)
                IN  /\ {listed[i] : i \in 1..Len(listed)} = repeated
                    /\ Len(listed) = Cardinality(repeated)
                    /\ \A i \in 1..(Len(listed) - 1) : StrLess(listed[i], listed[i + 1])
                    /\ Includes(out.message[1], "ambiguous " \o options.kind \o " names")
                    /\ Includes(out.message[1], "'" \o options.queryName \o "'")
                    /\ Includes(out.message[1], "(" \o options.fileName \o ")")

\* Two names are repeated, first met in the reverse of their sorted order.
C1_Witness ==
    /\ thrown # NotCalled
    /\ thrown.outcome.raised
    /\ options.names = <<"startedAt", "Id", "startedAt", "Id">>

(***************************************************************************)
(* C7, C8                                                                  *)
(***************************************************************************)
\* The type has the null alternative: it is a union with a null member.
HasNullAlternative(t) ==
    t.node = "union" /\ \E i \in 1..Len(t.types) : t.types[i] = NullLiteral

\* The type without its null alternative.
NonNullPart(t) == IF t.node = "union" THEN t.types[1] ELSE t

RECURSIVE ArrayLevels(_)
ArrayLevels(t) == IF t.node = "array" THEN 1 + ArrayLevels(t.elem) ELSE 0

Mapped == typ # NotCalled /\ ~typ.outcome.raised

HasDeclaredType == column # Undefined /\ column.type # Undefined

\* C7 as stated: for any column, the mapped type has the null alternative
\* exactly when notNull is false, whatever the base type, the any of a column
\* without a declared type included.
C7_Original ==
    (Mapped /\ column # Undefined) =>
        (HasNullAlternative(typ.outcome.value) <=> ~column.notNull)

\* C7 amended: for any column with a declared type that the mapper maps, the
\* mapped type has the null alternative exactly when notNull is false; a column
\* that is absent or has no declared type maps to the bare any, without the
\* null alternative, whatever its notNull.
C7_Nullability ==
    Mapped =>
        IF HasDeclaredType
        THEN HasNullAlternative(typ.outcome.value) <=> ~column.notNull
        ELSE typ.outcome.value = KeywordType("any")

\* A nullable enum column with two array dimensions, in the strict mapper.
C7_Witness ==
    /\ Mapped
    /\ HasDeclaredType
    /\ mapper = TaggedDriver
    /\ ToLowerCase(column.type.name) \in DOMAIN enumMap
    /\ ~column.notNull
    /\ column.arrayDims = 2
    /\ HasNullAlternative(typ.outcome.value)

\* C8: in the Postgres mappers a column with a declared type is wrapped in
\* exactly arrayDims array levels when arrayDims >= 1, in exactly one level when
\* isArray is set and arrayDims is 0, and in none when neither is set; this for
\* enum and non-enum base types alike.
C8_ArrayLevels ==
    (Mapped /\ HasDeclaredType /\ mapper \in PostgresDrivers) =>
        LET levels == ArrayLevels(NonNullPart(typ.outcome.value))
        IN  /\ column.arrayDims >= 1 => levels = column.arrayDims
            /\ (column.isArray /\ column.arrayDims = 0) => levels = 1
            /\ (~column.isArray /\ column.arrayDims = 0) => levels = 0

\* An enum column with two dimensions, wrapped twice by the strict mapper.
C8_Witness ==
    /\ Mapped
    /\ HasDeclaredType
    /\ mapper = TaggedDriver
    /\ StripPgCatalog(ToLowerCase(column.type.name)) \in DOMAIN enumMap
    /\ column.arrayDims = 2
    /\ ~column.isArray
    /\ ArrayLevels(NonNullPart(typ.outcome.value)) = 2


(***************************************************************************)
(* The emitted :one functions.                                             *)
(***************************************************************************)
OneCalled(ds) ==
    /\ driver \in ds
    /\ query # Undefined
    /\ query.cmd = ":one"
    /\ returned # NotCalled

\* The row a :one function hands back for the single row of a result set:
\* the row itself where the client returns objects, else an object with one
\* field per result column, named by colName and holding the cell of that
\* position or its conversion to a number.
IsMappedRow(v, row) ==
    IF driver \in {TaggedDriver, UnsafeDriver} THEN v = row
    ELSE /\ v.js = "object"
         /\ Len(v.fields) = Len(query.columns)
         /\ \A i \in 1..Len(query.columns) :
               /\ v.fields[i].name = colName(i - 1, query.columns[i])
               /\ v.fields[i].value \in {row.cells[i], NumberOf(row.cells[i])}

OneContract ==
    /\ ~returned.outcome.raised
    /\ IF Len(resultSet) = 1
       THEN IsMappedRow(returned.outcome.value, resultSet[1])
       ELSE returned.outcome.value = JsNull

\* C2: the :one function the tagged-template driver emits returns null for a
\* result set of length 0, the single row for length 1 and null for length 2
\* or more, and never raises on the row count.
C2_TaggedOne == OneCalled({TaggedDriver}) => OneContract

\* C3: the :one functions the positional-array drivers emit (PostgresCommonDriver,
\* bun-sqlite, the class-based postgres driver) return null for 0 rows, the
\* single mapped row for exactly 1 row and null for 2 or more rows, and never
\* raise on the row count.
C3_PositionalOne == OneCalled({CommonDriver, SqliteDriver, UnsafeDriver}) => OneContract

C3_Witness ==
    /\ OneCalled({CommonDriver})
    /\ Len(resultSet) = 2
    /\ Len(query.columns) = 2
    /\ returned.outcome = Returned(JsNull)


(***************************************************************************)
(* The run of the plugin.                                                  *)
(***************************************************************************)
\* The columns of the parameters and of the result of a query.
ColumnsOf(q) ==
    {q.params[i].column : i \in 1..Len(q.params)} \cup {q.columns[i] : i \in 1..Len(q.columns)}

\* Processing the query raises under the lookup of the request: derived names
\* collide, the strict mapper does not classify a type, or the command kind
\* is one the driver does not support.
QueryRaises(q) ==
    \/ RepeatedNames(ArgNames(q)) # {}
    \/ RepeatedNames(ColNames(q)) # {}
    \/ \E c \in ColumnsOf(q) : columnType(buildEnumMap(input), c).raised
    \/ q.cmd = ":execlastid"

SomeQueryRaises == \E i \in 1..Len(input.queries) : QueryRaises(input.queries[i])

Filenames == {input.queries[i].filename : i \in 1..Len(input.queries)}

\* C4: a run is all-or-nothing: when processing any query raises, codegen
\* returns no response and nothing is written to the output; a file set is
\* produced only when every query of every file was processed without error.
C4_AllOrNothing ==
    /\ failure.raised => pc = "failed" /\ result = Undefined /\ stdout = <<>>
    /\ result # Undefined \/ stdout # <<>> => ~SomeQueryRaises
    /\ result # Undefined =>
          /\ ~failure.raised
          /\ Len(result.files) = Cardinality(Filenames)
    /\ stdout # <<>> => result # Undefined /\ stdout = <<result>>

\* A file was complete when a query of a later file raised: nothing is written.
C4_Witness ==
    /\ pc = "failed"
    /\ Len(files) >= 1
    /\ result = Undefined
    /\ stdout = <<>>
    /\ previous = Undefined

IsDeclaration(n) == n.node \in {"interface", "function"}

\* The positions in ns of the declarations of the query: its Args interface,
\* its Row interface and its function.
DeclarationsOf(ns, names) ==
    {i \in 1..Len(ns) : IsDeclaration(ns[i]) /\ ns[i].name \in names}

AllDeclarationNames(q) == {q.name \o "Args", q.name \o "Row", LowerName(q)}

InterfacesOf(ns) == {ns[i] : i \in {j \in 1..Len(ns) : ns[j].node = "interface"}}

DistinctMembers(iface) ==
    \A i, j \in 1..Len(iface.members) :
        i # j => iface.members[i].name # iface.members[j].name

\* Every interface of every file of the response has distinct field names,
\* and no query of a response has colliding derived names.
ResponseDistinct ==
    result # Undefined =>
        /\ \A k \in 1..Len(result.files) :
              \A iface \in InterfacesOf(result.files[k].contents.nodes) :
                  DistinctMembers(iface)
        /\ \A i \in 1..Len(input.queries) :
              /\ RepeatedNames(ArgNames(input.queries[i])) = {}
              /\ RepeatedNames(ColNames(input.queries[i])) = {}

\* The field names of an interface are the derived names, as derived.
NeverRenamed ==
    pc \in {"columns", "switch", "endfile"} =>
        \A iface \in InterfacesOf(nodes) :
            \E i \in 1..Len(querymap[fi].queries) :
                LET q == querymap[fi].queries[i]
                    names == [m \in 1..Len(iface.members) |-> iface.members[m].name]
                IN  \/ iface.name = q.name \o "Args" /\ names = ArgNames(q)
                    \/ iface.name = q.name \o "Row" /\ names = ColNames(q)

\* C5, as stated: a query whose derived argument names or column names collide
\* makes the run fail before any declaration of that query is appended.
C5_Original ==
    /\ ResponseDistinct
    /\ NeverRenamed
    /\ pc = "failed" /\ failure.at \in {"argument names", "column names"} =>
          DeclarationsOf(nodes, AllDeclarationNames(CurrentQuery)) = {}

\* C5: every Args and Row interface of a returned response has pairwise
\* distinct field names; colliding argument names make the run fail before
\* any declaration of the query is appended, colliding column names make it
\* fail before the query's Row interface and function are appended (its Args
\* interface is then already among the nodes of the file, which is never
\* returned); the names are never changed to make them distinct.
C5_DistinctNames ==
    /\ ResponseDistinct
    /\ NeverRenamed
    /\ pc = "failed" /\ failure.at = "argument names" =>
          DeclarationsOf(nodes, AllDeclarationNames(CurrentQuery)) = {}
    /\ pc = "failed" /\ failure.at = "column names" =>
          DeclarationsOf(nodes,
                         {CurrentQuery.name \o "Row", LowerName(CurrentQuery)}) = {}

\* Column names collide in a query with parameters.
C5_Witness ==
    /\ pc = "failed"
    /\ failure.at = "column names"
    /\ DeclarationsOf(nodes, {CurrentQuery.name \o "Args"}) # {}
    /\ result = Undefined

KnownCmds == {":exec", ":execlastid", ":one", ":many"}

UnsupportedOperation(message) == Includes(message, " support :execlastid")

\* C6: for a query of kind :exec, :execlastid, :one or :many the switch either
\* appends exactly one function declaration for the query to the nodes of its
\* file or raises an unsupported-operation error; every driver raises it for
\* :execlastid; the query is never completed without its function.
C6_OneCallable ==
    [][pc = "switch" /\ CurrentQuery.cmd \in KnownCmds =>
          /\ \/ /\ pc' \in {"args", "endfile"}
                /\ Len(nodes') = Len(nodes) + 1
                /\ SubSeq(nodes', 1, Len(nodes)) = nodes
                /\ nodes'[Len(nodes')].node = "function"
                /\ nodes'[Len(nodes')].name = LowerName(CurrentQuery)
             \/ /\ pc' = "failed"
                /\ failure'.at = "callable"
                /\ UnsupportedOperation(failure'.message)
                /\ nodes' = nodes
          /\ CurrentQuery.cmd = ":execlastid" =>
                \A d \in Drivers :
                    /\ CallableDecl(d, CurrentQuery).raised
                    /\ UnsupportedOperation(CallableDecl(d, CurrentQuery).message)
      ]_vars

\* The function of a :many query is the last node when its file ends.
C6_Witness ==
    /\ pc = "endfile"
    /\ CurrentQuery.cmd = ":many"
    /\ nodes[Len(nodes)].node = "function"
    /\ nodes[Len(nodes)].name = LowerName(CurrentQuery)


(***************************************************************************)
(* The enum declarations of a file.                                        *)
(***************************************************************************)
\* The keys of the lookup that a parameter or column of the queries names as
\* its type, in lower case.
ReferencedEnums(queries) ==
    {ToLowerCase(c.type.name) :
        c \in {c \in UNION {ColumnsOf(queries[i]) : i \in 1..Len(queries)} :
                  c # Undefined /\ c.type # Undefined}}
    \cap DOMAIN enumMap

\* The node is the string-literal union of the values, in their order.
IsUnionOf(n, vals) ==
    /\ n.node = "typeAlias"
    /\ n.type.node = "union"
    /\ Len(n.type.types) = Len(vals)
    /\ \A i \in 1..Len(vals) :
          n.type.types[i].node = "literal" /\ n.type.types[i].text = vals[i]

\* The positions of the enum declarations in the nodes of a file.
EnumPositions(ns) == {i \in 1..Len(ns) : ns[i].node = "typeAlias"}

\* The declaration of the enum the lookup holds under a key.
DeclaresKey(n, key) == n.name = pascalCase(key) /\ IsUnionOf(n, enumMap[key].vals)

\* The enum declarations stand after the preamble, before every declaration
\* of a query.
EnumsAfterPreamble(ns) ==
    /\ SubSeq(ns, 1, Len(preamble)) = preamble
    /\ \A i \in EnumPositions(ns) :
          /\ i > Len(preamble)
          /\ \A j \in 1..Len(ns) : IsDeclaration(ns[j]) => i < j

EnumDefinitions ==
    IF input.catalog = Undefined THEN {}
    ELSE UNION {{input.catalog.schemas[s].enums[e] :
                    e \in 1..Len(input.catalog.schemas[s].enums)} :
                s \in 1..Len(input.catalog.schemas)}

\* The keys under which the lookup holds the definition.
KeysOf(def) == {key \in DOMAIN enumMap : enumMap[key] = def}

\* C10: in every generated file each enum definition of the catalog is
\* declared at most once, and only if some query of the file has a parameter
\* or column of that enum type, also when the enum is reachable under both
\* its bare name and its schema-qualified name.
C10_AtMostOnce ==
    \A k \in 1..Len(files) :
        LET ns == files[k].contents.nodes
            refs == ReferencedEnums(querymap[k].queries)
        IN  \A def \in EnumDefinitions :
                LET declared == {i \in EnumPositions(ns) :
                                    \E key \in KeysOf(def) : DeclaresKey(ns[i], key)}
                IN  /\ Cardinality(declared) <= 1
                    /\ declared # {} => refs \cap KeysOf(def) # {}


(***************************************************************************)
(* buildTaggedTemplate                                                     *)
(***************************************************************************)
Digits == {"0", "1", "2", "3", "4", "5", "6", "7", "8", "9"}

\* The end of the longest run of digits of text that starts at position pos.
RECURSIVE DigitsEnd(_, _)
DigitsEnd(text, pos) ==
    IF pos <= Len(text) /\ SubSeq(text, pos, pos) \in Digits THEN DigitsEnd(text, pos + 1)
    ELSE pos - 1

\* The texts of the `$<integer>` markers of text from position pos on, in order.
RECURSIVE MarkerTexts(_, _)
MarkerTexts(text, pos) ==
    IF pos > Len(text) THEN <<>>
    ELSE IF SubSeq(text, pos, pos) = "$" /\ DigitsEnd(text, pos + 1) > pos
         THEN <<SubSeq(text, pos, DigitsEnd(text, pos + 1))>>
              \o MarkerTexts(text, DigitsEnd(text, pos + 1) + 1)
         ELSE MarkerTexts(text, pos + 1)

\* The literal fragments and the bound expressions of a tagged template.
FragmentsOf(tagged) ==
    IF tagged.template.node = "noSubstitutionTemplate" THEN <<tagged.template.text>>
    ELSE <<tagged.template.head>>
         \o [i \in 1..Len(tagged.template.spans) |-> tagged.template.spans[i].literal]

ExpressionsOf(tagged) ==
    IF tagged.template.node = "noSubstitutionTemplate" THEN <<>>
    ELSE [i \in 1..Len(tagged.template.spans) |-> tagged.template.spans[i].expression]

\* fragment 1, marker 1, fragment 2, ..., marker k, fragment k + 1
RECURSIVE Interleave(_, _)
Interleave(fragments, markers) ==
    IF markers = <<>> THEN Join(fragments)
    ELSE Head(fragments) \o Head(markers) \o Interleave(Tail(fragments), Tail(markers))

TemplateBuilt == driver = "" /\ query # Undefined /\ emitted # NotCalled

\* C11: buildTaggedTemplate gives k + 1 literal fragments and k bound
\* expressions, k the number of `$<integer>` markers of the text, and the
\* fragments interleaved with the marker texts give back the text; with no
\* marker it gives one fragment, the whole text, and no expression.
C11_Template ==
    TemplateBuilt =>
        LET tagged == emitted.outcome.value
            markers == MarkerTexts(query.text, 1)
        IN  /\ Len(ExpressionsOf(tagged)) = Len(markers)
            /\ Len(FragmentsOf(tagged)) = Len(markers) + 1
            /\ Interleave(FragmentsOf(tagged), markers) = query.text
            /\ markers = <<>> =>
                  FragmentsOf(tagged) = <<query.text>> /\ ExpressionsOf(tagged) = <<>>

\* Two markers that follow each other at the start of the text:
\* a marker of two digits after a marker of one.
C11_Witness ==
    /\ TemplateBuilt
    /\ query.text = "$1$12"
    /\ FragmentsOf(emitted.outcome.value) = <<"", "", "">>


(***************************************************************************)
(* The names of the files.                                                 *)
(***************************************************************************)
DotPositions(s) == {i \in 1..Len(s) : SubSeq(s, i, i) = "."}

FirstDot(s) == CHOOSE i \in DotPositions(s) : \A j \in DotPositions(s) : i <= j

LastDot(s) == CHOOSE i \in DotPositions(s) : \A j \in DotPositions(s) : j <= i

\* The filename with its extension (the text from its last "." on) replaced
\* by ".ts".
ExtensionReplaced(s) ==
    IF DotPositions(s) = {} THEN s \o ".ts"
    ELSE SubSeq(s, 1, LastDot(s) - 1) \o ".ts"

\* The filename with its first "." turned into "_", followed by ".ts".
FirstDotUnderscored(s) ==
    IF DotPositions(s) = {} THEN s \o ".ts"
    ELSE SubSeq(s, 1, FirstDot(s) - 1) \o "_" \o SubSeq(s, FirstDot(s) + 1, Len(s)) \o ".ts"

\* C12, as stated: each output file is named by the source filename with its
\* extension replaced by the extension of the target language (authors.sql
\* gives authors.ts).
C12_Original ==
    \A k \in 1..Len(files) : files[k].name = ExtensionReplaced(querymap[k].filename)

\* C12: each output file is named by the source filename with its first "."
\* replaced by "_", followed by ".ts" (authors.sql gives authors_sql.ts).
C12_FileName ==
    \A k \in 1..Len(files) : files[k].name = FirstDotUnderscored(querymap[k].filename)

C12_Witness ==
    /\ result # Undefined
    /\ Len(result.files) = 2
    /\ querymap[1].filename = "authors.sql"
    /\ result.files[1].name = "authors_sql.ts"
    /\ querymap[2].filename = "db.v2.sql"
    /\ result.files[2].name = "db_v2.sql.ts"


(***************************************************************************)
(* The interfaces of a query.                                              *)
(***************************************************************************)
HasInterface(ns, name) ==
    \E i \in 1..Len(ns) : ns[i].node = "interface" /\ ns[i].name = name

\* C13: for a query of kind :exec no Row interface is emitted, even when the
\* query has result columns.
C13_NoRowForExec ==
    \A k \in 1..Len(files) :
        \A i \in 1..Len(querymap[k].queries) :
            LET q == querymap[k].queries[i]
            IN  q.cmd = ":exec" => ~HasInterface(files[k].contents.nodes, q.name \o "Row")


(***************************************************************************)
(* The grouping of the queries by filename.                                *)
(***************************************************************************)
\* The positions of the request at which a filename is seen first.
FirstSeenAt ==
    {i \in 1..Len(input.queries) :
        \A j \in 1..(i - 1) : input.queries[j].filename # input.queries[i].filename}

\* The number of distinct filenames seen up to position i of the request.
SeenUpTo(i) == Cardinality({j \in FirstSeenAt : j <= i})

\* The queries of a filename, in the order of the request.
QueriesOf(f) == SelectSeq(input.queries, LAMBDA q : q.filename = f)

FunctionNames(ns) ==
    LET fs == SelectSeq(ns, LAMBDA n : n.node = "function")
    IN  [i \in 1..Len(fs) |-> fs[i].name]

\* C14: every query of the request is in exactly one file group, the groups
\* stand in the order in which their filename is first seen, the queries of a
\* group keep the order of the request, and the response has exactly one file
\* per distinct filename.
C14_Grouping ==
    pc # "codegen" =>
        /\ Len(querymap) = Cardinality(FirstSeenAt)
        /\ \A i \in FirstSeenAt :
              /\ querymap[SeenUpTo(i)].filename = input.queries[i].filename
              /\ querymap[SeenUpTo(i)].queries = QueriesOf(input.queries[i].filename)
        /\ result # Undefined =>
              /\ Len(result.files) = Cardinality(Filenames)
              /\ \A k \in 1..Len(result.files) :
                    /\ result.files[k].name = FileName(querymap[k].filename)
                    /\ FunctionNames(result.files[k].contents.nodes)
                          = [i \in 1..Len(querymap[k].queries) |->
                                LowerName(querymap[k].queries[i])]

\* The queries of two files alternate in the request.
C14_Witness ==
    /\ result # Undefined
    /\ Len(input.queries) = 3
    /\ input.queries[1].filename = "db.v2.sql" /\ input.queries[1].name = "Second"
    /\ input.queries[2].filename = "a.sql"
    /\ input.queries[3].filename = "db.v2.sql" /\ input.queries[3].name = "First"
    /\ Len(result.files) = 2
    /\ FunctionNames(result.files[1].contents.nodes) = <<"second", "first">>


(***************************************************************************)
(* The enum lookup.                                                        *)
(***************************************************************************)
SystemSchemas == {"pg_catalog", "information_schema"}

CatalogSchemas == IF input.catalog = Undefined THEN <<>> ELSE input.catalog.schemas

\* The registrations of the catalog, in order: one per enum of each schema
\* that is not a system schema.
RECURSIVE RegistrationsOf(_)
RegistrationsOf(schemas) ==
    IF schemas = <<>> THEN <<>>
    ELSE (IF Head(schemas).name \in SystemSchemas THEN <<>>
          ELSE [i \in 1..Len(Head(schemas).enums) |->
                   [schema |-> Head(schemas).name, enum |-> Head(schemas).enums[i]]])
         \o RegistrationsOf(Tail(schemas))

Registrations == RegistrationsOf(CatalogSchemas)

QualifiedName(r) == r.schema \o "." \o r.enum.name

LookupBuilt == pc = "file" /\ files = <<>>

\* C15: when two schemas that are not system schemas define an enum with the
\* same bare name, the bare-name key of the lookup keeps the enum registered
\* first; a later registration never replaces it.
C15_FirstWins ==
    LookupBuilt =>
        \A i \in 1..Len(Registrations) :
            (\A j \in 1..(i - 1) : Registrations[j].enum.name # Registrations[i].enum.name)
                => enumMap[Registrations[i].enum.name] = Registrations[i].enum

\* C16: buildEnumMap registers every enum of every schema other than
\* pg_catalog and information_schema under its bare name, and under
\* schema.name exactly when the schema is not the default schema of the
\* catalog; it registers no enum defined only in a system schema, and an
\* empty catalog gives an empty map.
C16_Registered ==
    LookupBuilt =>
        LET bare == {Registrations[i].enum.name : i \in 1..Len(Registrations)}
            qualifying == {i \in 1..Len(Registrations) :
                              Registrations[i].schema # input.catalog.defaultSchema}
            qualified == {QualifiedName(Registrations[i]) : i \in qualifying}
        IN  /\ DOMAIN enumMap = bare \cup qualified
            /\ \A key \in bare :
                  \E i \in 1..Len(Registrations) :
                      Registrations[i].enum.name = key /\ enumMap[key] = Registrations[i].enum
            /\ \A key \in qualified :
                  \E i \in qualifying :
                      QualifiedName(Registrations[i]) = key /\ enumMap[key] = Registrations[i].enum
            /\ CatalogSchemas = <<>> => enumMap = EmptyMap

\* A system schema and the default schema define enums, and a third schema
\* gives its enums a qualified name as well.
C16_Witness ==
    /\ LookupBuilt
    /\ input.catalog # Undefined
    /\ input.catalog.defaultSchema = "public"
    /\ Len(input.catalog.schemas) = 2
    /\ input.catalog.schemas[1].name = "pg_catalog"
    /\ input.catalog.schemas[1].enums # <<>>
    /\ input.catalog.schemas[2].name = "alt"
    /\ DOMAIN enumMap = {"status", "mood", "alt.status", "alt.mood"}


(***************************************************************************)
(* The lookup during a run.                                                *)
(***************************************************************************)
\* The steps that call columnType or getEnumName, or read the lookup.
ReadsLookup == pc \in {"args", "columns", "endfile"}

\* C17: within one run the enum lookup is built and installed exactly once,
\* before the first call of columnType or getEnumName, and from then until
\* the response is produced no step adds, removes or replaces an entry of it.
C17_LookupFrozen ==
    [][/\ pc = "codegen" => enumMap' = buildEnumMap(input) /\ ~ReadsLookup
       /\ pc # "codegen" => enumMap' = enumMap /\ enumMap = buildEnumMap(input)
      ]_vars

\* A run that recorded enums of its lookup and wrote its response.
C17_Witness ==
    /\ pc = "done"
    /\ Len(files) = 2
    /\ usedEnums # {}
    /\ enumMap = buildEnumMap(input)
    /\ enumMap # EmptyMap


(***************************************************************************)
(* The error that ends a run.                                              *)
(***************************************************************************)
\* The text of the error: the message of assertUniqueNames is kept as its
\* lines, of which the first names the query and the file.
FailureText ==
    IF failure.at \in {"argument names", "column names"} THEN failure.message[1]
    ELSE failure.message

\* C18: the first error raised while the declarations of a query are emitted
\* (a type-mapping error of the Args or Row interface, an ambiguous-name
\* error, an unsupported command kind) reaches the caller in a message that
\* contains the name of the query and its filename.
C18_ErrorNamesQuery ==
    pc = "failed" =>
        /\ Includes(FailureText, CurrentQuery.name)
        /\ Includes(FailureText, CurrentFilename)


(***************************************************************************)
(* The errors of the strict mapper.                                        *)
(***************************************************************************)
\* The type names for which the table of the strict mapper gives a type.
StrictClassified ==
    StrictBoolean \cup StrictDate \cup StrictNumber \cup StrictJson \cup StrictString
    \cup {"bytea", "void"}

\* The name the strict mapper looks up: without pg_catalog., in lower case.
LookedUpName == ToLowerCase(StripPgCatalog(column.type.name))

StrictCalled == typ # NotCalled /\ mapper = TaggedDriver

\* C19: the strict columnType raises an unclassified-type error for every
\* declared type name that is neither a key of the enum lookup nor classified
\* by its table; the message contains the original type name and, when the
\* column has a non-empty name, the column name.
C19_UnclassifiedError ==
    (StrictCalled /\ HasDeclaredType
        /\ LookedUpName \notin DOMAIN enumMap /\ LookedUpName \notin StrictClassified) =>
        /\ typ.outcome.raised
        /\ Includes(typ.outcome.message, column.type.name)
        /\ column.name # "" => Includes(typ.outcome.message, column.name)


\* C20 as stated: a column that is absent or has no declared type maps to
\* `any` without raising in every permissive driver, while in the strict
\* driver the same input raises a classification error.
C20_Original ==
    (typ # NotCalled /\ ~HasDeclaredType) =>
        IF mapper = TaggedDriver
        THEN typ.outcome.raised
        ELSE typ.outcome = Return(KeywordType("any"))

\* C20: a column that is absent or has no declared type maps to `any`
\* without raising in every driver, the strict one included (the strict
\* driver raises only for a declared type name); a permissive driver never
\* raises, whatever the type name.
C20_AbsentColumn ==
    typ # NotCalled =>
        /\ mapper # TaggedDriver => ~typ.outcome.raised
        /\ ~HasDeclaredType => typ.outcome = Return(KeywordType("any"))

\* The strict mapper has been applied to a named column without a declared
\* type and has returned `any`.
C20_Witness ==
    /\ StrictCalled
    /\ column # Undefined /\ column.type = Undefined
    /\ typ.outcome = Return(KeywordType("any"))


\* C21: codegen keeps no state across runs: whatever ran before, a run on a
\* request ends as the first run on that request ends, with the same files
\* or with an error.
C21_NoStateAcrossRuns ==
    /\ pc \in {"writeOutput", "done"} =>
          /\ ~FirstRun(input).raised
          /\ result = FirstRun(input).value
    /\ pc = "failed" => FirstRun(input).raised

\* A run that refers to an enum has ended after an aborted run on a request
\* with another lookup.
C21_Witness ==
    /\ pc = "done"
    /\ usedEnums # {}
    /\ previous # Undefined
    /\ FirstRun(previous).raised
    /\ buildEnumMap(previous) # buildEnumMap(input)


(***************************************************************************)
(* The row mapping of PostgresCommonDriver.                                *)
(***************************************************************************)
\* The column is one the client returns as a string and the accessor narrows.
WireNarrowed(col) ==
    /\ col.type # Undefined
    /\ ToLowerCase(StripPgCatalog(col.type.name)) \in {"int8", "bigint", "bigserial", "serial8"}

\* What the accessor of a column is to give for a cell.
NarrowedCell(col, cell) ==
    IF ~WireNarrowed(col) THEN cell
    ELSE IF ~col.notNull /\ cell = JsNull THEN JsNull
    ELSE NumberOf(cell)

NarrowedRow(row) ==
    JsObject([i \in 1..Len(query.columns) |->
                [name |-> colName(i - 1, query.columns[i]),
                 value |-> NarrowedCell(query.columns[i], row.cells[i])]])

\* The fields of the object literal the emitted function returns.
EmittedFields ==
    LET body == emitted.outcome.value[1].body
    IN  body[Len(body)].fields

CommonRowsCalled ==
    /\ driver = CommonDriver
    /\ query # Undefined
    /\ query.cmd \in {":one", ":many"}
    /\ returned # NotCalled

\* C22: in the :one and :many functions of PostgresCommonDriver the accessor
\* of field i converts with Number() exactly when the type name of the column,
\* without pg_catalog. and in lower case, is int8, bigint, bigserial or
\* serial8; a null of a nullable such column stays null; every other column is
\* read as row[i]; and the interface declares such a column as number (under
\* the array and null wrappers of the column).
C22_WireNarrowing ==
    CommonRowsCalled =>
        /\ \A i \in 1..Len(query.columns) :
              /\ (EmittedFields[i].value.expr = "row[i]") <=> ~WireNarrowed(query.columns[i])
              /\ EmittedFields[i].value.index = i - 1
              /\ WireNarrowed(query.columns[i]) =>
                    CommonColumnType(query.columns[i])
                        = Return(ArrayNullable(KeywordType("number"), query.columns[i]))
        /\ query.cmd = ":many" =>
              returned.outcome
                  = Returned(JsArray([k \in 1..Len(resultSet) |-> NarrowedRow(resultSet[k])]))
        /\ (query.cmd = ":one" /\ Len(resultSet) = 1) =>
              returned.outcome = Returned(NarrowedRow(resultSet[1]))

\* A :many function has mapped a null and a string of digits of a nullable
\* BIGINT column, next to an int4 column.
C22_Witness ==
    /\ CommonRowsCalled
    /\ query.cmd = ":many"
    /\ Len(query.columns) = 2
    /\ query.columns[1].type.name = "BIGINT"
    /\ Len(resultSet) = 2
    /\ resultSet[1].cells[1] = JsNull
    /\ resultSet[2].cells[1] = JsString("7")
    /\ returned.outcome.value.items[1].fields[1].value = JsNull
    /\ returned.outcome.value.items[2].fields[1].value = JsNumber(7)


\* C23: the columnType of the bun-sqlite driver follows the array rule of the
\* type mapper: a column marked array (isArray set or arrayDims positive) is
\* wrapped in one array level per dimension, at least one.
C23_SqliteArray ==
    (Mapped /\ HasDeclaredType /\ mapper = SqliteDriver
        /\ (column.isArray \/ column.arrayDims > 0)) =>
        ArrayLevels(NonNullPart(typ.outcome.value)) = ArrayDimsOf(column)


\* The 1-based index a marker text `$<integer>` names.
MarkerIndex(marker) == ParseInt(SubSeq(marker, 2, Len(marker)))

\* C24: buildTaggedTemplate never raises on a marker whose 1-based index has
\* no parameter (0, or greater than the number of parameters): for it the
\* template refers to the field argName gives a position without a column,
\* arg<index - 1>, and the markers after it are rewritten as any other.
C24_OutOfRange ==
    TemplateBuilt =>
        LET tagged == emitted.outcome.value
            markers == MarkerTexts(query.text, 1)
        IN  /\ ~emitted.outcome.raised
            /\ Len(ExpressionsOf(tagged)) = Len(markers)
            /\ \A i \in 1..Len(markers) :
                  LET k == MarkerIndex(markers[i])
                  IN  IF k = 0 \/ k > Len(query.params)
                      THEN ExpressionsOf(tagged)[i] = ArgsAccess(argName(k - 1, Undefined))
                      ELSE ExpressionsOf(tagged)[i]
                              = ArgsAccess(argName(k - 1, query.params[k].column))

\* A marker without a parameter before a marker with one: $2 then $1, with a
\* single parameter.
C24_Witness ==
    /\ TemplateBuilt
    /\ query.text = "$2a$1"
    /\ Len(query.params) = 1
    /\ ExpressionsOf(emitted.outcome.value) = <<ArgsAccess("arg1"), ArgsAccess("authorId")>>


(***************************************************************************)
(* The enum types a file refers to and the ones it declares.               *)
(***************************************************************************)
RECURSIVE ElementType(_)
ElementType(t) == IF t.node = "array" THEN ElementType(t.elem) ELSE t

\* The type identifiers the fields of the interfaces of a file refer to.
FieldReferences(ns) ==
    UNION {{ElementType(NonNullPart(iface.members[i].type)).name :
               i \in {j \in 1..Len(iface.members) :
                         ElementType(NonNullPart(iface.members[j].type)).node = "reference"}} :
           iface \in InterfacesOf(ns)}

\* The identifiers under which the enums of the lookup are referred to.
EnumIdentifiers == {pascalCase(key) : key \in DOMAIN enumMap}

\* C25: in every generated file the enum types the fields of the Args and Row
\* interfaces refer to are the enum types the file declares, also for type
\* names with the pg_catalog. prefix or with upper-case letters.
C25_ReferencedDeclared ==
    \A k \in 1..Len(files) :
        LET ns == files[k].contents.nodes
        IN  FieldReferences(ns) \cap EnumIdentifiers
                = {ns[i].name : i \in EnumPositions(ns)}


(***************************************************************************)
(* The references to args in the emitted functions.                        *)
(***************************************************************************)
FunctionsOf(ns) == {ns[i] : i \in {j \in 1..Len(ns) : ns[j].node = "function"}}

\* The tagged template of an emitted function: the call of its first statement.
TemplateOf(f) == f.body[1].call

\* The fields the function reads from args.
ArgsFields(f) ==
    {ExpressionsOf(TemplateOf(f))[i].property : i \in 1..Len(ExpressionsOf(TemplateOf(f)))}

\* The function declares args, typed by the interface iface.
DeclaresArgs(f, iface) ==
    \E i \in 1..Len(f.parameters) :
        f.parameters[i].name = "args" /\ f.parameters[i].type = iface.name

MemberNames(iface) == {iface.members[i].name : i \in 1..Len(iface.members)}

\* C26: every args.<field> of an emitted function stands in a function that
\* declares the parameter args, typed by the Args interface of the query, and
\* <field> is a field of that interface; for a marker $k with k from 1 to the
\* number of parameters the field is the one the interface declares for
\* parameter k - 1.
C26_ArgsDeclared ==
    \A n \in 1..Len(files) :
        LET ns == files[n].contents.nodes
        IN  \A q \in {querymap[n].queries[i] : i \in 1..Len(querymap[n].queries)} :
            \A f \in {g \in FunctionsOf(ns) : g.name = LowerName(q)} :
                LET markers == MarkerTexts(q.text, 1)
                    ifaces == {i \in InterfacesOf(ns) : i.name = q.name \o "Args"}
                IN  /\ ArgsFields(f) # {} =>
                          \E iface \in ifaces :
                              DeclaresArgs(f, iface) /\ ArgsFields(f) \subseteq MemberNames(iface)
                    /\ \A m \in 1..Len(markers) :
                          LET k == MarkerIndex(markers[m])
                          IN  (1 <= k /\ k <= Len(q.params)) =>
                                 \E iface \in ifaces :
                                    ExpressionsOf(TemplateOf(f))[m].property
                                        = iface.members[k].name


\* The positions of the function declarations in the nodes of a file.
FunctionPositions(ns) == {i \in 1..Len(ns) : ns[i].node = "function"}

\* C27: every query of a returned response has exactly one callable
\* declaration in its file, whatever its command kind is, the kinds other
\* than :exec, :execlastid, :one and :many included.
C27_CallablePerQuery ==
    result # Undefined =>
        \A n \in 1..Len(result.files) :
            LET ns == result.files[n].contents.nodes
                qs == querymap[n].queries
            IN  /\ Cardinality(FunctionPositions(ns)) = Len(qs)
                /\ \A i \in 1..Len(qs) :
                      \E j \in FunctionPositions(ns) : ns[j].name = LowerName(qs[i])


\* C28: distinct source filenames yield distinct output file names: no two
\* files of a response share a name.
C28_DistinctFileNames ==
    result # Undefined =>
        \A i, j \in 1..Len(result.files) :
            i # j => result.files[i].name # result.files[j].name


\* C29: within a generated file the exported identifiers of the enums are
\* distinct from one another and from the names of the Args and Row
\* interfaces: two enum names used in the file never give the same type
\* identifier, and no enum's identifier is the name of an interface.
C29_DistinctIdentifiers ==
    \A n \in 1..Len(files) :
        LET ns == files[n].contents.nodes
        IN  /\ \A i, j \in EnumPositions(ns) : i # j => ns[i].name # ns[j].name
            /\ \A i \in EnumPositions(ns) : \A iface \in InterfacesOf(ns) :
                  ns[i].name # iface.name


\* C30: the strict and the permissive Postgres mappers agree wherever the
\* strict one succeeds: for a type name that is not an enum and that the
\* strict columnType classifies without raising, PostgresCommonDriver's
\* columnType returns the same type, whatever the nullability and the array
\* setting.
C30_MappersAgree ==
    (StrictCalled /\ HasDeclaredType /\ Mapped /\ LookedUpName \notin DOMAIN enumMap) =>
        CommonColumnType(column) = typ.outcome


====
